---- MODULE Spec2Model ----
(***************************************************************************)
(* Model of the screenplay editor of src/src/components/ScreenplayEditor   *)
(* .tsx: the Slate document (editor.children), the selection, the command  *)
(* palette (showCommandPalette, selectedIndex) and the key and pointer     *)
(* handlers that act on them.                                              *)
(*                                                                         *)
(* The editor is a Slate editor.  The handlers call Slate's transforms     *)
(* (Transforms.insertNodes, Transforms.delete, Transforms.move) and, when  *)
(* a keydown is not default-prevented, Slate's Editable runs the default   *)
(* edit of the key (insertText, deleteBackward, insertBreak).  The         *)
(* operators below give these calls the behaviour Slate has for the        *)
(* arguments the handlers pass.                                            *)
(*                                                                         *)
(* A text is a sequence of one-character strings.  A selection lies in one *)
(* block: [block, anchor, focus], offsets counted from 0 as Slate does.    *)
(***************************************************************************)
EXTENDS Integers, Sequences, FiniteSets, TLC

VARIABLES
    children,            \* editor.children: the sequence of blocks
    selection,           \* editor.selection
    showCommandPalette,  \* useState(false) of ScreenplayEditor
    selectedIndex,       \* useState(0) of CommandPalette
    event,               \* the last event handled (history)
    nav,                 \* history of a run of arrow keys (SpecNav)
    fmt,                 \* the auto-format rules in force, and the number of
                         \* Transforms.setNodes calls of the last insertion
    pdf,                 \* the PDF export of App.tsx: the body lines and the
                         \* pages drawn
    app,                 \* the state of App (title page, document title,
                         \* isSaving) and its export and save under way
    storage              \* the server's table of screenplays and the
                         \* browser's localStorage

vars == <<children, selection, showCommandPalette, selectedIndex, event, nav,
          fmt, pdf, app, storage>>

(***************************************************************************)
(* Bounds of the model.                                                    *)
(***************************************************************************)
MaxBlocks == 2
MaxChars == 2
\* The most characters of a document of several blocks, in the typing
\* specification.
MaxSplitChars == 5
\* The most body lines of an exported document (two full pages and more).
MaxLines == 95

TypedChars == {"/", "a"}

(***************************************************************************)
(* Types.                                                                  *)
(***************************************************************************)
BlockTypes ==
    {"paragraph", "scene-heading", "action", "character", "dialogue",
     "parenthetical", "transition"}

commands ==
    <<"scene", "action", "character", "dialogue", "parenthetical",
      "transition", "shot", "text", "note", "outline", "newact", "endact",
      "lyrics", "image", "sequence", "dual">>

commandsLength == Len(commands)

Block(type, text) == [type |-> type, text |-> text]

NoSelection == [block |-> 0, anchor |-> 0, focus |-> 0]

Point(b, o) == [block |-> b, anchor |-> o, focus |-> o]

IsCollapsed(sel) == sel.anchor = sel.focus

Take(s, n) == SubSeq(s, 1, n)

Drop(s, n) == SubSeq(s, n + 1, Len(s))

Min(a, b) == IF a <= b THEN a ELSE b

Max(a, b) == IF a >= b THEN a ELSE b

\* The remainder of JavaScript's %: it has the sign of the dividend.
JsMod(a, n) == IF a >= 0 THEN a % n ELSE 0 - ((0 - a) % n)

Editor(ch, sel) == [children |-> ch, selection |-> sel]

InsertAt(seq, i, x) == Take(seq, i - 1) \o <<x>> \o Drop(seq, i - 1)

RemoveAt(seq, i) == Take(seq, i - 1) \o Drop(seq, i)

RECURSIVE TotalChars(_)
TotalChars(ch) ==
    IF ch = <<>> THEN 0 ELSE Len(Head(ch).text) + TotalChars(Tail(ch))

Fits(ch) == Len(ch) <= MaxBlocks /\ TotalChars(ch) <= MaxChars

(***************************************************************************)
(* Slate transforms, as the handlers call them.                            *)
(***************************************************************************)

\* The selection's range removed from its block; the selection collapses to
\* the start of the range (Transforms.delete of an expanded range).
DeleteRange(ed) ==
    LET sel == ed.selection
        lo == Min(sel.anchor, sel.focus)
        hi == Max(sel.anchor, sel.focus)
        b == ed.children[sel.block]
    IN Editor([ed.children EXCEPT ![sel.block] =
                   Block(b.type, Take(b.text, lo) \o Drop(b.text, hi))],
              Point(sel.block, lo))

\* Transforms.mergeNodes at the start of block i > 1, as Transforms.delete
\* calls it across a block boundary: an empty previous block is removed
\* instead; otherwise block i is merged into block i - 1, which keeps its
\* type.
MergeBackward(ed) ==
    LET i == ed.selection.block
        prev == ed.children[i - 1]
        cur == ed.children[i]
    IN IF prev.text = <<>>
       THEN Editor(RemoveAt(ed.children, i - 1), Point(i - 1, 0))
       ELSE Editor(RemoveAt([ed.children EXCEPT ![i - 1] =
                                 Block(prev.type, prev.text \o cur.text)], i),
                   Point(i - 1, Len(prev.text)))

\* Transforms.delete(editor, { distance: 1, reverse: true }): an expanded
\* selection is deleted whole (distance is not read); a collapsed one loses
\* the character before it, or, at offset 0, the block boundary before it.
TransformsDelete(ed) ==
    LET sel == ed.selection
    IN IF sel = NoSelection THEN ed
       ELSE IF ~IsCollapsed(sel) THEN DeleteRange(ed)
       ELSE IF sel.anchor > 0
       THEN LET b == ed.children[sel.block]
            IN Editor([ed.children EXCEPT ![sel.block] =
                           Block(b.type, RemoveAt(b.text, sel.anchor))],
                      Point(sel.block, sel.anchor - 1))
       ELSE IF sel.block = 1 THEN ed
       ELSE MergeBackward(ed)

\* Transforms.insertNodes(editor, element) of one empty block, with no
\* `at`: an expanded selection is deleted first; the block holding the point
\* is split there unless the point is at an edge of it; the element goes
\* after the block when the point is at its end, else at the place of the
\* block (of its second part when it was split); the selection moves to the
\* end of the inserted element.
InsertNodesAtPoint(ed, type) ==
    LET b == ed.selection.block
        o == ed.selection.anchor
        cur == ed.children[b]
        element == Block(type, <<>>)
    IN IF o = Len(cur.text)
       THEN Editor(InsertAt(ed.children, b + 1, element), Point(b + 1, 0))
       ELSE IF o = 0
       THEN Editor(InsertAt(ed.children, b, element), Point(b, 0))
       ELSE Editor(Take(ed.children, b - 1)
                       \o <<Block(cur.type, Take(cur.text, o)), element,
                            Block(cur.type, Drop(cur.text, o))>>
                       \o Drop(ed.children, b),
                   Point(b + 1, 0))

InsertNodes(ed, type) ==
    IF ed.selection = NoSelection
    THEN Editor(ed.children \o <<Block(type, <<>>)>>,
                Point(Len(ed.children) + 1, 0))
    ELSE IF IsCollapsed(ed.selection) THEN InsertNodesAtPoint(ed, type)
    ELSE InsertNodesAtPoint(DeleteRange(ed), type)

\* Editor.after(editor, point, { distance: 1, unit: 'character' }): the next
\* character position, which from the end of a block is the start of the
\* next block; none after the end of the document.
After(ch, b, o) ==
    IF o < Len(ch[b].text) THEN <<b, o + 1>>
    ELSE IF b < Len(ch) THEN <<b + 1, 0>>
    ELSE <<b, o>>

\* Transforms.move(editor): anchor and focus each move one character
\* forward.  The handlers call it on a collapsed selection.
TransformsMove(ed) ==
    LET sel == ed.selection
        p == After(ed.children, sel.block, sel.anchor)
    IN IF sel = NoSelection THEN ed
       ELSE Editor(ed.children, Point(p[1], p[2]))

\* Slate's insertText of the text `str` (a sequence of characters) at the
\* selection: an expanded selection is replaced; the text goes into the
\* text node as it is, line feeds included.
SlateInsertText(ed, str) ==
    LET e == IF IsCollapsed(ed.selection) THEN ed ELSE DeleteRange(ed)
        b == e.children[e.selection.block]
        o == e.selection.anchor
    IN Editor([e.children EXCEPT ![e.selection.block] =
                   Block(b.type, Take(b.text, o) \o str \o Drop(b.text, o))],
              Point(e.selection.block, o + Len(str)))

\* Slate's deleteForward: an expanded selection is deleted; the character
\* after the cursor is removed; at the end of a block the next block is
\* merged into this one (this one is removed instead when it is empty); at
\* the end of the last block nothing happens.
SlateDeleteForward(ed) ==
    LET i == ed.selection.block
        b == ed.children[i]
        o == ed.selection.anchor
    IN IF ~IsCollapsed(ed.selection) THEN DeleteRange(ed)
       ELSE IF o < Len(b.text)
            THEN Editor([ed.children EXCEPT ![i] =
                             Block(b.type, RemoveAt(b.text, o + 1))],
                        ed.selection)
       ELSE IF i = Len(ed.children) THEN ed
       ELSE IF b.text = <<>>
            THEN Editor(RemoveAt(ed.children, i), Point(i, 0))
       ELSE Editor(RemoveAt([ed.children EXCEPT ![i] =
                                 Block(b.type,
                                       b.text \o ed.children[i + 1].text)],
                            i + 1),
                   ed.selection)

\* Slate's insertBreak (Transforms.splitNodes with always: true): the block
\* is split at the point, edges included.
SlateInsertBreak(ed) ==
    LET e == IF IsCollapsed(ed.selection) THEN ed ELSE DeleteRange(ed)
        i == e.selection.block
        b == e.children[i]
        o == e.selection.anchor
    IN Editor(Take(e.children, i - 1)
                  \o <<Block(b.type, Take(b.text, o)),
                       Block(b.type, Drop(b.text, o))>>
                  \o Drop(e.children, i),
              Point(i + 1, 0))

(***************************************************************************)
(* Auto-formatting (withAutoFormatting).                                   *)
(***************************************************************************)

\* A faulty variant of autoFormatPatterns: CUT gives a scene heading.
autoFormatPatterns_CutScene ==
    <<[keyword |-> <<"I", "N", "T">>, dot |-> TRUE, type |-> "scene-heading"],
      [keyword |-> <<"E", "X", "T">>, dot |-> TRUE, type |-> "scene-heading"],
      [keyword |-> <<"F", "A", "D", "E">>, dot |-> FALSE, type |-> "transition"],
      [keyword |-> <<"C", "U", "T">>, dot |-> FALSE, type |-> "scene-heading"],
      [keyword |-> <<"D", "I", "S", "S", "O", "L", "V", "E">>, dot |-> FALSE,
       type |-> "transition"]>>

\* /^INT\.?\s/i and the like: the keyword, whether "." may follow it, and
\* the type.
autoFormatPatterns ==
    <<[keyword |-> <<"I", "N", "T">>, dot |-> TRUE, type |-> "scene-heading"],
      [keyword |-> <<"E", "X", "T">>, dot |-> TRUE, type |-> "scene-heading"],
      [keyword |-> <<"F", "A", "D", "E">>, dot |-> FALSE, type |-> "transition"],
      [keyword |-> <<"C", "U", "T">>, dot |-> FALSE, type |-> "transition"],
      [keyword |-> <<"D", "I", "S", "S", "O", "L", "V", "E">>, dot |-> FALSE,
       type |-> "transition"]>>

ToUpper(c) ==
    CASE c = "i" -> "I" [] c = "n" -> "N" [] c = "t" -> "T" [] c = "e" -> "E"
      [] c = "x" -> "X" [] c = "f" -> "F" [] c = "a" -> "A" [] c = "d" -> "D"
      [] c = "c" -> "C" [] c = "u" -> "U" [] c = "s" -> "S" [] c = "o" -> "O"
      [] c = "l" -> "L" [] c = "v" -> "V" [] OTHER -> c

IsSpace(c) == c \in {" ", "\t", "\n"}

\* A faulty variant of PatternTest: the dot alone ends the match, as
\* /^INT(\.|\s)/i would.
PatternTest_DotEnds(p, text) ==
    LET n == Len(p.keyword)
    IN /\ Len(text) > n
       /\ \A k \in 1..n : ToUpper(text[k]) = p.keyword[k]
       /\ \/ IsSpace(text[n + 1])
          \/ p.dot /\ text[n + 1] = "."

\* pattern.test(textContent)
PatternTest(p, text) ==
    LET n == Len(p.keyword)
    IN /\ Len(text) > n
       /\ \A k \in 1..n : ToUpper(text[k]) = p.keyword[k]
       /\ \/ IsSpace(text[n + 1])
          \/ p.dot /\ text[n + 1] = "." /\ Len(text) > n + 1 /\ IsSpace(text[n + 2])

\* A faulty variant of FormatLoopOver: the test of the element's type lost.
RECURSIVE FormatLoopOver_NoTypeTest(_, _, _)
FormatLoopOver_NoTypeTest(rules, ed, k) ==
    IF k > Len(rules) THEN [ed |-> ed, setNodes |-> 0]
    ELSE LET p == rules[k]
             i == ed.selection.block
             b == ed.children[i]
         IN IF PatternTest(p, b.text)
            THEN [ed |-> Editor([ed.children EXCEPT ![i] = Block(p.type, b.text)],
                                ed.selection),
                  setNodes |-> 1]
            ELSE FormatLoopOver_NoTypeTest(rules, ed, k + 1)

\* A faulty variant of FormatLoopOver: the break is outside the test of the
\* element's type, so that the first match ends the loop.
RECURSIVE FormatLoopOver_BreakOutside(_, _, _)
FormatLoopOver_BreakOutside(rules, ed, k) ==
    IF k > Len(rules) THEN [ed |-> ed, setNodes |-> 0]
    ELSE LET p == rules[k]
             i == ed.selection.block
             b == ed.children[i]
         IN IF PatternTest(p, b.text)
            THEN IF b.type # p.type
                 THEN [ed |-> Editor([ed.children EXCEPT ![i] =
                                          Block(p.type, b.text)],
                                     ed.selection),
                       setNodes |-> 1]
                 ELSE [ed |-> ed, setNodes |-> 0]
            ELSE FormatLoopOver_BreakOutside(rules, ed, k + 1)

\* for (const { pattern, type } of rules) from rule k on, for the block of
\* the cursor: the first rule that matches and whose type is not the
\* block's calls Transforms.setNodes and ends the loop; a rule that matches
\* with the block's own type does not end it.  The result is the editor and
\* the number of Transforms.setNodes calls.
RECURSIVE FormatLoopOver(_, _, _)
FormatLoopOver(rules, ed, k) ==
    IF k > Len(rules) THEN [ed |-> ed, setNodes |-> 0]
    ELSE LET p == rules[k]
             i == ed.selection.block
             b == ed.children[i]
         IN IF PatternTest(p, b.text) /\ b.type # p.type
            THEN [ed |-> Editor([ed.children EXCEPT ![i] = Block(p.type, b.text)],
                                ed.selection),
                  setNodes |-> 1]
            ELSE FormatLoopOver(rules, ed, k + 1)

\* The loop over autoFormatPatterns from pattern k on.
FormatLoop(ed, k) == FormatLoopOver(autoFormatPatterns, ed, k).ed

\* A faulty variant of IsActualText: the test of '\t' lost.
IsActualText_Tab(str) == Len(str) = 1 /\ str # <<"\n">>

\* text && text.length === 1 && text !== '\n' && text !== '\t'
IsActualText(str) == Len(str) = 1 /\ str # <<"\n">> /\ str # <<"\t">>

\* editor.insertText(text) with `rules` for autoFormatPatterns: the editor
\* and the number of Transforms.setNodes calls made.
insertTextOver(rules, ed, str) ==
    LET e == SlateInsertText(ed, str)
    IN IF IsActualText(str) THEN FormatLoopOver(rules, e, 1)
       ELSE [ed |-> e, setNodes |-> 0]

\* editor.insertText(text), and the number of Transforms.setNodes calls it
\* makes.
insertTextCalls(ed, str) == insertTextOver(autoFormatPatterns, ed, str)

\* editor.insertText(text)
insertText(ed, str) == insertTextCalls(ed, str).ed

\* A faulty variant of insertData: the pasted text goes through the
\* patterns.
insertData_Format(ed, str) == FormatLoop(SlateInsertText(ed, str), 1)

\* editor.insertData(data) with data.getData('text/plain') = str, not empty:
\* Transforms.insertText(editor, text), which does not call
\* editor.insertText.
insertData(ed, str) == SlateInsertText(ed, str)

\* editor.deleteBackward(unit): the editor's own deleteBackward.
deleteBackward(ed) == TransformsDelete(ed)

\* editor.deleteForward(unit): the editor's own deleteForward.
deleteForward(ed) == SlateDeleteForward(ed)

\* fmt outside the typing and rule specifications.
FmtInit == [rules |-> autoFormatPatterns, setNodes |-> 0]

(***************************************************************************)
(* The PDF export of App.tsx (handleExportPDF).  The body is the list      *)
(* formatContentForPDF returns; the loop over it reads of a line only what *)
(* decides its x position, so a line is named here by its place in the     *)
(* list, 1..n.  A page is named by its number in the PDF document.         *)
(***************************************************************************)
pageHeight == 792
marginTop == 72
marginBottom == 72
lineHeight == 14

\* Math.floor((pageHeight - marginTop - marginBottom) / lineHeight)
maxLinesPerPage == (pageHeight - marginTop - marginBottom) \div lineHeight

\* A faulty variant of DrawLine: the page is changed one line too late.
DrawLine_Late(st, line) ==
    LET newPage == st.yPosition < marginBottom
        page == IF newPage THEN st.pages + 1 ELSE st.pages
        y == IF newPage THEN pageHeight - marginTop ELSE st.yPosition
    IN [pages |-> page,
        yPosition |-> y - lineHeight,
        drawn |-> Append(st.drawn,
                         [line |-> line, page |-> page, y |-> y,
                          cursor |-> st.yPosition, newPage |-> newPage])]

\* A faulty variant of DrawLine: yPosition is not set back to the top on a
\* new page.
DrawLine_NoReset(st, line) ==
    LET newPage == st.yPosition - lineHeight < marginBottom
        page == IF newPage THEN st.pages + 1 ELSE st.pages
        y == st.yPosition
    IN [pages |-> page,
        yPosition |-> y - lineHeight,
        drawn |-> Append(st.drawn,
                         [line |-> line, page |-> page, y |-> y,
                          cursor |-> st.yPosition, newPage |-> newPage])]

\* A faulty variant of DrawLine: no page is added, the line is drawn at the
\* top of the same page.
DrawLine_SamePage(st, line) ==
    LET newPage == st.yPosition - lineHeight < marginBottom
        page == st.pages
        y == IF newPage THEN pageHeight - marginTop ELSE st.yPosition
    IN [pages |-> page,
        yPosition |-> y - lineHeight,
        drawn |-> Append(st.drawn,
                         [line |-> line, page |-> page, y |-> y,
                          cursor |-> st.yPosition, newPage |-> newPage])]

\* One pass of the loop `for (const line of formattedContent)`: a page is
\* added when the line does not fit, the line is drawn on the current page
\* (the page added last) at yPosition, and yPosition goes down by one line.
\* `drawn` records each drawText call: the line, the page, y, and yPosition
\* as it was at the top of the pass.
DrawLine(st, line) ==
    LET newPage == st.yPosition - lineHeight < marginBottom
        page == IF newPage THEN st.pages + 1 ELSE st.pages
        y == IF newPage THEN pageHeight - marginTop ELSE st.yPosition
    IN [pages |-> page,
        yPosition |-> y - lineHeight,
        drawn |-> Append(st.drawn,
                         [line |-> line, page |-> page, y |-> y,
                          cursor |-> st.yPosition, newPage |-> newPage])]

\* No export under way: a body of n lines, with or without a title page.
NotExported(n, titlePage) ==
    [lines |-> n, titlePage |-> titlePage, phase |-> "idle", next |-> 0,
     pages |-> 0, yPosition |-> 0, drawn |-> <<>>]

\* pdf outside the export specification.
PdfInit == NotExported(0, FALSE)

(***************************************************************************)
(* The export of the document itself (handleExportPDF and                  *)
(* formatContentForPDF of App.tsx): the title page, the lines of the       *)
(* blocks and where each is drawn.                                         *)
(*                                                                         *)
(* Two characters of the texts exported stand for letters outside ASCII:   *)
(* "sz" is the sharp s (U+00DF), which the fonts used can encode and which *)
(* toUpperCase turns into the two letters SS; "ta" is a Tamil letter,      *)
(* which the standard fonts of pdf-lib cannot encode.                      *)
(*                                                                         *)
(* x is in tenths of a point (a glyph of Courier at size 12 is 7.2 points  *)
(* wide); y and the sizes are in points.                                   *)
(***************************************************************************)
pageWidth == 612
marginLeft == 72
marginRight == 72

\* The most body lines of a page is 46; a document of this many blocks of
\* one line each needs a second content page.
LongDocLines == 47

Tenths(points) == 10 * points

\* String.prototype.toUpperCase: one letter for each letter, but for the
\* sharp s, which becomes SS.
RECURSIVE toUpperCase(_)
toUpperCase(text) ==
    IF text = <<>> THEN <<>>
    ELSE (IF Head(text) = "sz" THEN <<"S", "S">> ELSE <<ToUpper(Head(text))>>)
           \o toUpperCase(Tail(text))

\* Whether the standard fonts (WinAnsi) can encode the text; drawText and
\* widthOfTextAtSize throw when they cannot.
CanEncode(text) == \A k \in DOMAIN text : text[k] # "ta"

\* font.widthOfTextAtSize(text, size) of Courier and of Courier-Bold, every
\* glyph of which is 600/1000 of the size wide; in tenths of a point.
widthOfTextAtSize(text, size) == 6 * size * Len(text)

\* text.split('\n')
RECURSIVE split(_)
split(text) ==
    IF \A k \in DOMAIN text : text[k] # "\n" THEN <<text>>
    ELSE LET k == CHOOSE i \in DOMAIN text :
                      /\ text[i] = "\n"
                      /\ \A j \in 1..(i - 1) : text[j] # "\n"
         IN <<Take(text, k - 1)>> \o split(Drop(text, k))

\* line.trim()
RECURSIVE trim(_)
trim(line) ==
    IF line = <<>> THEN line
    ELSE IF IsSpace(Head(line)) THEN trim(Tail(line))
    ELSE IF IsSpace(line[Len(line)]) THEN trim(Take(line, Len(line) - 1))
    ELSE line

\* The object processNode pushes for a line of a text node of type `type`.
FormattedLine(line, type) ==
    [text |-> line,
     type |-> IF type = "" THEN "action" ELSE type,
     bold |-> type \in {"character", "scene-heading", "transition"},
     size |-> 12]

\* A faulty variant of processNode: the lines are pushed trimmed.
processNode_Trims(node) ==
    [result |-> [k \in DOMAIN SelectSeq(split(node.text),
                                        LAMBDA line : trim(line) # <<>>) |->
                   FormattedLine(
                       trim(SelectSeq(split(node.text),
                                      LAMBDA line : trim(line) # <<>>)[k]),
                       node.type)],
     node |-> node]

\* A faulty variant of processNode: the text of the node is replaced by its
\* trimmed form, in place.
processNode_InPlace(node) ==
    [result |-> [k \in DOMAIN SelectSeq(split(node.text),
                                        LAMBDA line : trim(line) # <<>>) |->
                   FormattedLine(SelectSeq(split(node.text),
                                           LAMBDA line : trim(line) # <<>>)[k],
                                 node.type)],
     node |-> [node EXCEPT !.text = trim(node.text)]]

\* processNode for a block and its text node: the block has no text of its
\* own, its text node is processed as a copy carrying the block's type, and
\* each line of the text that is not empty once trimmed is pushed, as it
\* is.  `node` is the block after the call: nothing is assigned to it.
processNode(node) ==
    [result |-> [k \in DOMAIN SelectSeq(split(node.text),
                                        LAMBDA line : trim(line) # <<>>) |->
                   FormattedLine(SelectSeq(split(node.text),
                                           LAMBDA line : trim(line) # <<>>)[k],
                                 node.type)],
     node |-> node]

\* formatContentForPDF(nodes): the lines pushed, and the nodes after the
\* call.
RECURSIVE formatContentForPDF(_)
formatContentForPDF(nodes) ==
    IF nodes = <<>> THEN [result |-> <<>>, nodes |-> <<>>]
    ELSE LET first == processNode(Head(nodes))
             rest == formatContentForPDF(Tail(nodes))
         IN [result |-> first.result \o rest.result,
             nodes |-> <<first.node>> \o rest.nodes]

\* xPosition of a line of the body: the widths are those of the text in
\* upper case.
xPosition(line) ==
    CASE line.type = "scene-heading" ->
           (Tenths(pageWidth)
              - widthOfTextAtSize(toUpperCase(line.text), line.size)) \div 2
      [] line.type = "character" -> Tenths(marginLeft + 144)
      [] line.type = "dialogue" -> Tenths(marginLeft + 108)
      [] line.type = "parenthetical" -> Tenths(marginLeft + 144)
      [] line.type = "transition" ->
           Tenths(pageWidth - marginRight)
             - widthOfTextAtSize(toUpperCase(line.text), line.size)
      [] OTHER -> Tenths(marginLeft + 108)

\* A drawText call: the page, the text drawn and its options, and what it
\* is a drawing of ("title", "author", "basedOn", "contact", or the type of
\* the line for a line of the body).
Drawing(page, of, text, x, y, size, bold) ==
    [page |-> page, of |-> of, text |-> text, x |-> x, y |-> y,
     size |-> size, bold |-> bold]

WrittenBy == <<"W", "r", "i", "t", "t", "e", "n", " ", "b", "y", " ">>

BasedOn == <<"B", "a", "s", "e", "d", " ", "o", "n", " ", "\"">>

\* A faulty variant of hasTitlePage: any field that is not empty will do.
hasTitlePage_AnyField(show, tp) ==
    show /\ (tp.title # <<>> \/ tp.author # <<>> \/ tp.contact # <<>>
               \/ tp.basedOn # <<>>)

\* showTitlePage && (titlePage.title || titlePage.author)
hasTitlePage(show, tp) == show /\ (tp.title # <<>> \/ tp.author # <<>>)

\* A faulty variant of TitlePageDrawings: the contact is drawn at size 12.
TitlePageDrawings_Contact12(tp) ==
    (IF tp.title # <<>>
       THEN <<Drawing(1, "title", toUpperCase(tp.title),
                      (Tenths(pageWidth)
                         - widthOfTextAtSize(toUpperCase(tp.title), 24))
                        \div 2,
                      pageHeight - 200, 24, TRUE)>>
       ELSE <<>>)
    \o (IF tp.author # <<>>
          THEN <<Drawing(1, "author", WrittenBy \o tp.author,
                         (Tenths(pageWidth)
                            - widthOfTextAtSize(WrittenBy \o tp.author, 12))
                           \div 2,
                         pageHeight - 300, 12, FALSE)>>
          ELSE <<>>)
    \o (IF tp.basedOn # <<>>
          THEN <<Drawing(1, "basedOn", BasedOn \o tp.basedOn \o <<"\"">>,
                         (Tenths(pageWidth)
                            - widthOfTextAtSize(
                                  BasedOn \o tp.basedOn \o <<"\"">>, 12))
                           \div 2,
                         pageHeight - 350, 12, FALSE)>>
          ELSE <<>>)
    \o (IF tp.contact # <<>>
          THEN <<Drawing(1, "contact", tp.contact, Tenths(marginLeft),
                         marginBottom, 12, FALSE)>>
          ELSE <<>>)

\* The drawText calls of the title page, in the order of the code: each
\* field is drawn when it is not empty.
TitlePageDrawings(tp) ==
    (IF tp.title # <<>>
       THEN <<Drawing(1, "title", toUpperCase(tp.title),
                      (Tenths(pageWidth)
                         - widthOfTextAtSize(toUpperCase(tp.title), 24))
                        \div 2,
                      pageHeight - 200, 24, TRUE)>>
       ELSE <<>>)
    \o (IF tp.author # <<>>
          THEN <<Drawing(1, "author", WrittenBy \o tp.author,
                         (Tenths(pageWidth)
                            - widthOfTextAtSize(WrittenBy \o tp.author, 12))
                           \div 2,
                         pageHeight - 300, 12, FALSE)>>
          ELSE <<>>)
    \o (IF tp.basedOn # <<>>
          THEN <<Drawing(1, "basedOn", BasedOn \o tp.basedOn \o <<"\"">>,
                         (Tenths(pageWidth)
                            - widthOfTextAtSize(
                                  BasedOn \o tp.basedOn \o <<"\"">>, 12))
                           \div 2,
                         pageHeight - 350, 12, FALSE)>>
          ELSE <<>>)
    \o (IF tp.contact # <<>>
          THEN <<Drawing(1, "contact", tp.contact, Tenths(marginLeft),
                         marginBottom, 10, FALSE)>>
          ELSE <<>>)

\* The drawText call of a pass of the loop.
BodyDrawing(d) ==
    Drawing(d.page, d.line.type, d.line.text, xPosition(d.line), d.y,
            d.line.size, d.line.bold)

\* A faulty variant of ContentToDraw: the document is read again when the
\* content pages are drawn.
ContentToDraw_Current(content, current) == current

\* The content formatContentForPDF is given: the value getValue() returned
\* (`content`), whatever the document is by then (`current`).
ContentToDraw(content, current) == content

\* The pages of a PDF document of n pages: the title page first, when
\* there is one, then the content pages.
PagesOf(n, titled) ==
    [p \in 1..n |-> IF titled /\ p = 1 THEN "title" ELSE "content"]

\* No export under way.
NoExport ==
    [phase |-> "idle", atTrigger |-> <<>>, content |-> <<>>,
     editedAt |-> {}, pages |-> <<>>, formatted |-> <<>>, drawn |-> <<>>,
     next |-> 0, yPosition |-> 0]

NoTitlePage ==
    [title |-> <<>>, author |-> <<>>, contact |-> <<>>, basedOn |-> <<>>]

(***************************************************************************)
(* The persistence client (apiRequest and screenplayService) and the       *)
(* server's routes (dist-server/index.js).  An error message is a sequence *)
(* of words.  A response that never came (fetch rejects) has status 0.     *)
(***************************************************************************)
\* The most rows of the server's table.
MaxRows == 3

\* The ids the server gives the rows it inserts (`screenplay-${Date.now()}-
\* ${random}`): the k-th is given to the row inserted k-th.
NewIds == [k \in 1..(MaxRows + 1) |-> "screenplay-" \o ToString(k)]

NoRow == [id |-> "", title |-> "", content |-> <<>>, title_page |-> NoTitlePage]

\* The row the server inserts into an empty table when it starts (the texts
\* of its content, its author and its contact are shortened to one letter,
\* and its title is kept as one unit of text).
sampleScreenplay ==
    [id |-> "sample-1",
     title |-> "Sample Screenplay",
     content |-> <<Block("scene-heading", <<"I">>), Block("action", <<"A">>),
                   Block("character", <<"W">>), Block("dialogue", <<"T">>)>>,
     title_page |-> [title |-> <<"Sample Screenplay">>, author |-> <<"Y">>,
                     contact |-> <<"y">>, basedOn |-> <<>>]]

Response(status, error, row) ==
    [reached |-> TRUE, status |-> status, json |-> TRUE, error |-> error,
     row |-> row]

\* fetch rejects: the server cannot be reached.
Unreached ==
    [reached |-> FALSE, status |-> 0, json |-> FALSE, error |-> <<>>,
     row |-> NoRow]

RowsWithId(db, id) == {k \in DOMAIN db : db[k].id = id}

\* app.get('/api/screenplays/:id')
ServerGet(db, id) ==
    IF RowsWithId(db, id) = {}
      THEN Response(404, <<"Screenplay", "not", "found">>, NoRow)
      ELSE Response(200, <<>>, db[CHOOSE k \in RowsWithId(db, id) : TRUE])

\* A faulty variant of ServerPost: the row is inserted before the body is
\* looked at.
ServerPost_InsertsFirst(db, body, id) ==
    LET row == [id |-> id, title |-> body.title, content |-> body.content,
                title_page |-> body.title_page]
    IN IF ~body.hasTitle \/ body.title = "" \/ ~body.hasContent
         THEN [response |-> Response(400, <<"Title", "and", "content", "are",
                                            "required">>, NoRow),
               db |-> Append(db, row)]
         ELSE [response |-> Response(201, <<>>, row), db |-> Append(db, row)]

\* app.post('/api/screenplays'): the response and the table after it.  A
\* body is [hasTitle, title, hasContent, content, title_page]; hasTitle is
\* false when the body has no title, hasContent when it has no content (an
\* empty array is a content).
ServerPost(db, body, id) ==
    IF ~body.hasTitle \/ body.title = "" \/ ~body.hasContent
      THEN [response |-> Response(400, <<"Title", "and", "content", "are",
                                         "required">>, NoRow),
            db |-> db]
      ELSE LET row == [id |-> id, title |-> body.title,
                       content |-> body.content,
                       title_page |-> body.title_page]
           IN [response |-> Response(201, <<>>, row), db |-> Append(db, row)]

\* app.put('/api/screenplays/:id'): the response and the table after it.
\* The UPDATE sets the title and the content to the body's; with no title or
\* no content in the body, run() is given undefined, throws, and the route
\* answers 500.  The row updated is the one written last.
ServerPut(db, id, body) ==
    IF RowsWithId(db, id) = {}
      THEN [response |-> Response(404, <<"Screenplay", "not", "found">>,
                                  NoRow),
            db |-> db]
    ELSE IF ~body.hasTitle \/ ~body.hasContent
      THEN [response |-> Response(500, <<"Failed", "to", "update",
                                         "screenplay">>, NoRow),
            db |-> db]
    ELSE LET k == CHOOSE i \in RowsWithId(db, id) : TRUE
             row == [id |-> id, title |-> body.title,
                     content |-> body.content,
                     title_page |-> body.title_page]
         IN [response |-> Response(200, <<>>, row),
             db |-> Append(RemoveAt(db, k), row)]

\* app.delete('/api/screenplays/:id'): the response and the table after it.
ServerDelete(db, id) ==
    IF RowsWithId(db, id) = {}
      THEN [response |-> Response(404, <<"Screenplay", "not", "found">>,
                                  NoRow),
            db |-> db]
      ELSE [response |-> Response(200, <<>>, NoRow),
            db |-> RemoveAt(db, CHOOSE k \in RowsWithId(db, id) : TRUE)]

\* message.includes(word), for a word of the message.
Includes(message, word) == \E k \in DOMAIN message : message[k] = word

\* apiRequest: the value of a success response, or the message of the Error
\* thrown.
apiRequest(response) ==
    IF ~response.reached
      THEN [ok |-> FALSE, message |-> <<"Failed", "to", "fetch">>,
            value |-> NoRow]
    ELSE IF response.status \in 200..299
      THEN [ok |-> TRUE, message |-> <<>>, value |-> response.row]
    ELSE [ok |-> FALSE,
          message |-> IF ~response.json THEN <<"Network", "error">>
                      ELSE IF response.error # <<>> THEN response.error
                      ELSE <<"HTTP", ToString(response.status)>>,
          value |-> NoRow]

\* screenplayService.getScreenplay, from the response to its request: the
\* screenplay ("value"), null, or the error thrown again ("throws").
getScreenplay(response) ==
    LET r == apiRequest(response)
    IN IF r.ok
         THEN [outcome |-> "value", message |-> <<>>, value |-> r.value]
       ELSE IF Includes(r.message, "404")
         THEN [outcome |-> "null", message |-> <<>>, value |-> NoRow]
       ELSE [outcome |-> "throws", message |-> r.message, value |-> NoRow]

\* screenplayService.saveCurrentScreenplay(title, content, titlePage) against
\* the table `db`: whether it resolves, the table after it and the requests
\* made.  `net` tells which of the requests reach the server; `id` is the id
\* the server gives a row it inserts.
saveCurrentScreenplay(db, title, content, titlePage, net, id) ==
    LET got == getScreenplay(IF net.get THEN ServerGet(db, title)
                             ELSE Unreached)
        existing == got.outcome = "value"
        put == IF net.put
                 THEN ServerPut(db, title,
                                [hasTitle |-> FALSE, title |-> "",
                                 hasContent |-> TRUE,
                                 content |-> content,
                                 title_page |-> titlePage])
                 ELSE [response |-> Unreached, db |-> db]
        post == IF net.post
                  THEN ServerPost(db,
                                  [hasTitle |-> TRUE, title |-> title,
                                   hasContent |-> TRUE,
                                   content |-> content,
                                   title_page |-> titlePage],
                                  id)
                  ELSE [response |-> Unreached, db |-> db]
    IN IF existing /\ apiRequest(put.response).ok
         THEN [ok |-> TRUE, db |-> put.db, requests |-> <<"GET", "PUT">>]
         ELSE [ok |-> apiRequest(post.response).ok,
               db |-> post.db,
               requests |-> IF existing THEN <<"GET", "PUT", "POST">>
                            ELSE <<"GET", "POST">>]

(***************************************************************************)
(* handleSave of App.tsx and the browser's localStorage.                   *)
(***************************************************************************)
LocalKeys == <<"screenplay-content", "screenplay-title-page", "screenplay-title">>

\* An empty localStorage.
NoLocal ==
    [has |-> {}, content |-> <<>>, titlePage |-> NoTitlePage, title |-> ""]

\* The three localStorage.setItem calls of handleSave, of which the first
\* `writes` succeed and the next throws.
SetItems(local, writes, content, titlePage, title) ==
    [has |-> local.has \cup {LocalKeys[k] : k \in 1..writes},
     content |-> IF writes >= 1 THEN content ELSE local.content,
     titlePage |-> IF writes >= 2 THEN titlePage ELSE local.titlePage,
     title |-> IF writes >= 3 THEN title ELSE local.title]

\* A faulty variant of SaveOutcome: no fallback to localStorage when the
\* database save fails.
SaveOutcome_NoFallback(dbOk, first, second) ==
    IF dbOk /\ first = Len(LocalKeys)
      THEN [alert |-> "Saved successfully!", attempts |-> <<first>>]
    ELSE IF dbOk
      THEN [alert |-> "Failed to save!", attempts |-> <<first>>]
    ELSE [alert |-> "Failed to save!", attempts |-> <<>>]

\* The try, catch and inner try of handleSave once saveCurrentScreenplay has
\* settled: the alert shown and the attempts at the three setItem calls
\* (how many succeeded in each).  `first` is for the attempt after a
\* database save that succeeded, `second` for the attempt of the catch.
SaveOutcome(dbOk, first, second) ==
    IF dbOk /\ first = Len(LocalKeys)
      THEN [alert |-> "Saved successfully!", attempts |-> <<first>>]
    ELSE LET attempts == IF dbOk THEN <<first, second>> ELSE <<second>>
         IN IF second = Len(LocalKeys)
              THEN [alert |-> "Saved to local storage (database unavailable)",
                    attempts |-> attempts]
              ELSE [alert |-> "Failed to save!", attempts |-> attempts]

\* The most calls of saveCurrentScreenplay under way that are counted.
MaxInFlight == 2

\* A faulty variant of CanStartSave: isSaving is not looked at.
CanStartSave_Always(isSaving) == TRUE

\* if (editorRef.current && !isSaving), the editor being mounted.
CanStartSave(isSaving) == ~isSaving

\* No save under way, none made.  inFlight counts the calls of
\* saveCurrentScreenplay that have not settled; ignored tells whether Save
\* was clicked while the save was under way.
NoSave ==
    [phase |-> "idle", content |-> <<>>, titlePage |-> NoTitlePage,
     title |-> "", dbOk |-> FALSE, first |-> 0, second |-> 0,
     attempts |-> <<>>, requests |-> <<>>, inFlight |-> 0,
     ignored |-> FALSE]

\* No getScreenplay call made.
NoLookup ==
    [id |-> "", status |-> 0, found |-> FALSE, outcome |-> "none",
     message |-> <<>>]

\* The state of App when it is mounted.
AppInit ==
    [titlePage |-> NoTitlePage,
     showTitlePage |-> FALSE,
     currentDocument |-> "Untitled Screenplay",
     isSaving |-> FALSE,
     alert |-> "",
     export |-> NoExport,
     save |-> NoSave,
     lookup |-> NoLookup]

\* No request served yet.
NoRequest ==
    [method |-> "", id |-> "", hasTitle |-> FALSE, hasContent |-> FALSE,
     body |-> NoRow, status |-> 0, row |-> NoRow, list |-> <<>>,
     before |-> <<>>, inserted |-> 0]

\* The server's table when it has started on an empty database, and an
\* empty localStorage.  `last` is the request the server served last, when
\* requests are made of it directly.
StorageInit ==
    [db |-> <<sampleScreenplay>>, local |-> NoLocal, last |-> NoRequest]

(***************************************************************************)
(* The start of a session: App is mounted, ScreenplayEditor is mounted     *)
(* with it, and the effect of App runs loadScreenplay.                     *)
(***************************************************************************)
\* app.get('/api/screenplays'): the rows, ORDER BY updated_at DESC.  The
\* table is kept in the order its rows were written.
RECURSIVE ServerList(_)
ServerList(db) ==
    IF db = <<>> THEN <<>>
    ELSE <<db[Len(db)]>> \o ServerList(SubSeq(db, 1, Len(db) - 1))

\* The initialValue of ScreenplayEditor.tsx (each text shortened to one
\* letter): the value of the editor when its initialValue prop is null.
initialValue ==
    <<Block("action", <<"F">>), Block("scene-heading", <<"I">>),
      Block("action", <<"A">>), Block("character", <<"W">>),
      Block("dialogue", <<"T">>), Block("transition", <<"F">>)>>

\* loadScreenplay: what it sets of initialContent, titlePage and
\* currentDocument (`has` names the ones it sets).  `up` tells whether the
\* request of getScreenplays reaches the server.  What setItem wrote with
\* JSON.stringify, JSON.parse gives back.
loadScreenplay(up, db, local) ==
    IF up /\ Len(ServerList(db)) > 0
      THEN LET latest == ServerList(db)[1]
           IN [has |-> {"initialContent", "titlePage", "currentDocument"},
               initialContent |-> latest.content,
               titlePage |-> latest.title_page,
               currentDocument |-> latest.title]
      ELSE [has |-> {IF k = "screenplay-content" THEN "initialContent"
                     ELSE IF k = "screenplay-title-page" THEN "titlePage"
                     ELSE "currentDocument" : k \in local.has},
            initialContent |-> local.content,
            titlePage |-> local.titlePage,
            currentDocument |-> local.title]

\* useState(propInitialValue || initialValue) of ScreenplayEditor, at its
\* mount; a later value of the prop is not looked at.
EditorValueAtMount(propIsNull, propInitialValue) ==
    IF propIsNull THEN initialValue ELSE propInitialValue

(***************************************************************************)
(* The toolbar's toggleBlock.  A block the toolbar has wrapped is a node   *)
(* [type, children] whose one child is a block; the other blocks are       *)
(* [type, text].                                                           *)
(***************************************************************************)
ToolbarFormats ==
    {"scene-heading", "action", "character", "dialogue", "parenthetical",
     "transition"}

IsWrapper(node) == "children" \in DOMAIN node

Wrapper(type, block) == [type |-> type, children |-> <<block>>]

\* The lowest block of a top-level node: the node, or the block it wraps.
LowestBlock(node) == IF IsWrapper(node) THEN node.children[1] ELSE node

\* isBlockActive(editor, format): an element of the type among the
\* elements the selection is in.
isBlockActive(ed, format) ==
    /\ ed.selection # NoSelection
    /\ LET node == ed.children[ed.selection.block]
       IN node.type = format \/ LowestBlock(node).type = format

\* Transforms.unwrapNodes(editor, {match: an element of one of the six
\* types, split: true}): the lowest such element the selection is in is
\* unwrapped.  Unwrapping the block a wrapper holds leaves its text in the
\* wrapper.  Unwrapping a top-level block lifts its text node to the top
\* level and removes the block; Slate's normalisation then removes the text
\* node, a top-level node that is not a block, and the selection goes to
\* the end of the text before it, else the start of the text after it, else
\* to null.
unwrapNodes(ed) ==
    IF ed.selection = NoSelection THEN ed
    ELSE LET b == ed.selection.block
             node == ed.children[b]
         IN IF IsWrapper(node) /\ LowestBlock(node).type \in ToolbarFormats
              THEN Editor([ed.children EXCEPT
                             ![b] = Block(node.type, LowestBlock(node).text)],
                          ed.selection)
            ELSE IF IsWrapper(node) /\ node.type \in ToolbarFormats
              THEN Editor([ed.children EXCEPT ![b] = LowestBlock(node)],
                          ed.selection)
            ELSE IF ~IsWrapper(node) /\ node.type \in ToolbarFormats
              THEN Editor(RemoveAt(ed.children, b),
                          IF b > 1
                            THEN Point(b - 1,
                                       Len(LowestBlock(
                                               ed.children[b - 1]).text))
                          ELSE IF b < Len(ed.children) THEN Point(1, 0)
                          ELSE NoSelection)
            ELSE ed

\* Transforms.setNodes(editor, {type}): on the lowest block the selection
\* is in.
setNodes(ed, type) ==
    IF ed.selection = NoSelection THEN ed
    ELSE LET b == ed.selection.block
             node == ed.children[b]
         IN Editor([ed.children EXCEPT
                      ![b] = IF IsWrapper(node)
                               THEN Wrapper(node.type,
                                            Block(type,
                                                  LowestBlock(node).text))
                               ELSE Block(type, node.text)],
                   ed.selection)

\* Transforms.wrapNodes(editor, {type: format, children: []}): the lowest
\* block the selection is in becomes the child of a new element.  (It is
\* called on blocks that are not wrapped: unwrapNodes has run.)
wrapNodes(ed, format) ==
    IF ed.selection = NoSelection \/ IsWrapper(ed.children[ed.selection.block])
      THEN ed
      ELSE Editor([ed.children EXCEPT
                     ![ed.selection.block] =
                        Wrapper(format, ed.children[ed.selection.block])],
                  ed.selection)

\* toggleBlock(editor, format)
toggleBlock(ed, format) ==
    LET isActive == isBlockActive(ed, format)
        isList == format \in ToolbarFormats
        unwrapped == unwrapNodes(ed)
        set == setNodes(unwrapped,
                        IF isActive THEN "paragraph"
                        ELSE IF isList THEN format ELSE "paragraph")
    IN IF ~isActive /\ isList THEN wrapNodes(set, format) ELSE set

(***************************************************************************)
(* The command palette (CommandPalette) and the editor's handlers.         *)
(***************************************************************************)

\* A faulty variant of ArrowDownIndex: no % commands.length.
ArrowDownIndex_NoWrap(prev) == prev + 1

\* setSelectedIndex(prev => (prev + 1) % commands.length)
ArrowDownIndex(prev) == JsMod(prev + 1, commandsLength)

\* A faulty variant of ArrowUpIndex: commands.length not added before %.
ArrowUpIndex_NoAdd(prev) == JsMod(prev - 1, commandsLength)

\* setSelectedIndex(prev => (prev - 1 + commands.length) % commands.length)
ArrowUpIndex(prev) == JsMod(prev - 1 + commandsLength, commandsLength)

\* A faulty variant of CommandAt: the index is off by one.
CommandAt_OffByOne(index) == commands[JsMod(index + 1, commandsLength) + 1]

\* commands[selectedIndex].id
CommandAt(index) == commands[index + 1]

\* A faulty variant of elementMap: 'dual' mapped to 'character'.
elementMap_DualCharacter(command) ==
    CASE command = "scene" -> "scene-heading"
      [] command = "character" -> "character"
      [] command = "dialogue" -> "dialogue"
      [] command = "parenthetical" -> "parenthetical"
      [] command = "transition" -> "transition"
      [] command = "dual" -> "character"
      [] OTHER -> "action"

\* elementMap[command] || 'action'
elementMap(command) ==
    CASE command = "scene" -> "scene-heading"
      [] command = "action" -> "action"
      [] command = "character" -> "character"
      [] command = "dialogue" -> "dialogue"
      [] command = "parenthetical" -> "parenthetical"
      [] command = "transition" -> "transition"
      [] command = "shot" -> "action"
      [] command = "text" -> "action"
      [] command = "note" -> "action"
      [] command = "outline" -> "action"
      [] command = "newact" -> "action"
      [] command = "endact" -> "action"
      [] command = "lyrics" -> "action"
      [] command = "image" -> "action"
      [] command = "sequence" -> "action"
      [] command = "dual" -> "dialogue"
      [] OTHER -> "action"

\* handleCommandSelect(command), on the editor.  The three transforms in
\* the order of the code; `inserted` is the editor between insertNodes and
\* move, whose selection is in the inserted block.
CommandSelectInserted(ed, command) ==
    InsertNodes(TransformsDelete(ed), elementMap(command))

handleCommandSelect(ed, command) ==
    TransformsMove(CommandSelectInserted(ed, command))

\* A faulty variant of handleCommandClose: the deletion is forward.
handleCommandClose_Forward(ed) == SlateDeleteForward(ed)

\* handleCommandClose(), on the editor, with the palette shown.
handleCommandClose(ed) == TransformsDelete(ed)

\* A faulty variant of ResetEffect: the index is never reset.
ResetEffect_Keep(isOpen, prev) == prev

\* useEffect(() => { if (!isOpen) setSelectedIndex(0) }, [isOpen]), run
\* after each change of isOpen and before the next event is handled.
ResetEffect(isOpen, prev) == IF ~isOpen THEN 0 ELSE prev

\* The palette's Enter case: onSelect(commands[selectedIndex].id)
EnterSelects(index) == CommandAt(index)

\* The onClick of the item of index k: onSelect(command.id)
ClickSelects(k) == commands[k + 1]

\* Faulty variants of EnterElementType: the Character branch lost; the SceneHeading
\* branch inserting what the Character branch inserts.
EnterElementType_NoDialogue(type) == "action"

EnterElementType_SceneDialogue(type) ==
    IF type = "character" \/ type = "scene-heading" THEN "dialogue" ELSE "action"

\* The type of the block Enter inserts after a block of type `type`.
EnterElementType(type) ==
    IF type = "character" THEN "dialogue"
    ELSE IF type = "scene-heading" THEN "action"
    ELSE "action"

\* handleKeyDown for Enter, palette closed: with a collapsed selection the
\* default is prevented and a block is inserted; otherwise the default edit
\* (insertBreak) runs.
handleEnter(ed) ==
    IF IsCollapsed(ed.selection)
    THEN InsertNodes(ed, EnterElementType(ed.children[ed.selection.block].type))
    ELSE SlateInsertBreak(ed)

\* A faulty variant of handleTab: the test of Range.isCollapsed lost.
handleTab_AnySelection(ed) == InsertNodes(ed, "character")

\* handleKeyDown for Tab, palette closed: the default is prevented; a block
\* is inserted only with a collapsed selection.
handleTab(ed) ==
    IF IsCollapsed(ed.selection) THEN InsertNodes(ed, "character") ELSE ed

(***************************************************************************)
(* State.                                                                  *)
(***************************************************************************)

Ev(key, command, at) == [key |-> key, command |-> command, at |-> at]

NavInit ==
    [dir |-> "none", count |-> 0, start |-> 0, prevDir |-> "none",
     oneBack |-> 0, twoBack |-> 0]

\* The documents the editor holds when the events begin: one block of any
\* type, empty or of one character.
InitDocs ==
    {<<Block(t, <<>>)>> : t \in BlockTypes}
        \cup {<<Block(t, <<"a">>)>> : t \in BlockTypes}

Current == Editor(children, selection)

Init ==
    /\ children \in InitDocs
    /\ selection = NoSelection
    /\ showCommandPalette = FALSE
    /\ selectedIndex = 0
    /\ event = Ev("Init", "", 0)
    /\ nav = NavInit
    /\ fmt = FmtInit
    /\ pdf = PdfInit
    /\ app = AppInit
    /\ storage = StorageInit

\* The editor becomes `ed`.
Becomes(ed) ==
    /\ Fits(ed.children)
    /\ children' = ed.children
    /\ selection' = ed.selection

(***************************************************************************)
(* Pointer events in the editor: the selection is set, in either state of  *)
(* the palette.                                                            *)
(***************************************************************************)
Click(b, o) ==
    /\ selection' = Point(b, o)
    /\ event' = Ev("Pointer", "", 0)
    /\ UNCHANGED <<children, showCommandPalette, selectedIndex, nav, fmt, pdf, app,
                   storage>>

SelectRange(b, a, f) ==
    /\ selection' = [block |-> b, anchor |-> a, focus |-> f]
    /\ event' = Ev("Pointer", "", 0)
    /\ UNCHANGED <<children, showCommandPalette, selectedIndex, nav, fmt, pdf, app,
                   storage>>

(***************************************************************************)
(* Keys with the palette closed (handleKeyDown).                           *)
(***************************************************************************)

\* "/": the palette is shown; the default is not prevented, so "/" is
\* inserted by editor.insertText.
KeySlash ==
    /\ ~showCommandPalette
    /\ Len(children) < MaxBlocks
    /\ selection # NoSelection
    /\ Becomes(insertText(Current, <<"/">>))
    /\ showCommandPalette' = TRUE
    /\ selectedIndex' = ResetEffect(TRUE, selectedIndex)
    /\ event' = Ev("Slash",
                   IF event.key \in {"PaletteEnter", "PaletteEscape"}
                   THEN event.command ELSE "", 0)
    /\ UNCHANGED <<nav, fmt, pdf, app,
                   storage>>

KeyEnter ==
    /\ ~showCommandPalette
    /\ selection # NoSelection
    /\ Becomes(handleEnter(Current))
    /\ event' = Ev("Enter", "", selection'.block)
    /\ UNCHANGED <<showCommandPalette, selectedIndex, nav, fmt, pdf, app,
                   storage>>

KeyTab ==
    /\ ~showCommandPalette
    /\ selection # NoSelection
    /\ Becomes(handleTab(Current))
    /\ event' = Ev("Tab", "", selection'.block)
    /\ UNCHANGED <<showCommandPalette, selectedIndex, nav, fmt, pdf, app,
                   storage>>

\* Escape: setShowCommandPalette(false), which it already is.
KeyEscape ==
    /\ ~showCommandPalette
    /\ selection # NoSelection
    /\ showCommandPalette' = FALSE
    /\ event' = Ev("Key", "", 0)
    /\ UNCHANGED <<children, selection, selectedIndex, nav, fmt, pdf, app,
                   storage>>

(***************************************************************************)
(* Keys neither handler prevents the default of: handleKeyDown returns     *)
(* (palette shown) or matches no key (palette closed, the key not "/"),    *)
(* CommandPalette's handleKeyDown has no case for them, and the editor     *)
(* has the focus, so Slate runs the key's edit.                            *)
(***************************************************************************)
KeyChar(c) ==
    /\ showCommandPalette \/ c # "/"
    /\ selection # NoSelection
    /\ Becomes(insertText(Current, <<c>>))
    /\ event' = Ev("Key", "", 0)
    /\ UNCHANGED <<showCommandPalette, selectedIndex, nav, fmt, pdf, app,
                   storage>>

KeyBackspace ==
    /\ selection # NoSelection
    /\ Becomes(TransformsDelete(Current))
    /\ event' = Ev("Key", "", 0)
    /\ UNCHANGED <<showCommandPalette, selectedIndex, nav, fmt, pdf, app,
                   storage>>

(***************************************************************************)
(* Keys and clicks with the palette shown (CommandPalette).                *)
(***************************************************************************)
PaletteArrowDown ==
    /\ showCommandPalette
    /\ selectedIndex' = ArrowDownIndex(selectedIndex)
    /\ UNCHANGED <<children, selection, showCommandPalette, event, nav, fmt, pdf, app,
                   storage>>

PaletteArrowUp ==
    /\ showCommandPalette
    /\ selectedIndex' = ArrowUpIndex(selectedIndex)
    /\ UNCHANGED <<children, selection, showCommandPalette, event, nav, fmt, pdf, app,
                   storage>>

\* onSelect(command) and what follows it: the palette closes, and the
\* effect on isOpen sets selectedIndex to 0.
Select(command, key) ==
    /\ Becomes(handleCommandSelect(Current, command))
    /\ showCommandPalette' = FALSE
    /\ selectedIndex' = ResetEffect(FALSE, selectedIndex)
    /\ event' = Ev(key, command,
                   CommandSelectInserted(Current, command).selection.block)
    /\ UNCHANGED <<nav, fmt, pdf, app,
                   storage>>

PaletteEnter ==
    /\ showCommandPalette
    /\ Select(EnterSelects(selectedIndex), "PaletteEnter")

PaletteClick(k) ==
    /\ showCommandPalette
    /\ Select(ClickSelects(k), "PaletteClick")

\* Escape: onClose()
PaletteEscape ==
    /\ showCommandPalette
    /\ Becomes(handleCommandClose(Current))
    /\ showCommandPalette' = FALSE
    /\ selectedIndex' = ResetEffect(FALSE, selectedIndex)
    /\ event' = Ev("PaletteEscape", CommandAt(selectedIndex), 0)
    /\ UNCHANGED <<nav, fmt, pdf, app,
                   storage>>

\* Tab with the palette shown: handleKeyDown returns before its Tab branch
\* and the palette has no case for it; Tab edits nothing.
PaletteTab ==
    /\ showCommandPalette
    /\ event' = Ev("Key", "", 0)
    /\ UNCHANGED <<children, selection, showCommandPalette, selectedIndex, nav, fmt, pdf, app,
                   storage>>

Next ==
    \/ \E b \in 1..Len(children) : \E o \in 0..Len(children[b].text) : Click(b, o)
    \/ \E b \in 1..Len(children) : \E a \in 0..Len(children[b].text) :
         \E f \in (a + 1)..Len(children[b].text) : SelectRange(b, a, f)
    \/ KeySlash
    \/ KeyEnter
    \/ KeyTab
    \/ KeyEscape
    \/ \E c \in TypedChars : KeyChar(c)
    \/ KeyBackspace
    \/ PaletteArrowDown
    \/ PaletteArrowUp
    \/ PaletteEnter
    \/ \E k \in 0..(commandsLength - 1) : PaletteClick(k)
    \/ PaletteEscape
    \/ PaletteTab


Spec == Init /\ [][Next]_vars

(***************************************************************************)
(* Typing alone: characters typed, control characters and longer texts     *)
(* inserted through editor.insertText, texts pasted, and characters        *)
(* deleted, in a document of one or two blocks.  The texts are the pieces  *)
(* of the lines of Scripts.  fmt.setNodes is the number of                 *)
(* Transforms.setNodes calls of the last event.                            *)
(***************************************************************************)
Scripts ==
    {<<"I", "N", "T", " ", "a">>,
     <<"i", "n", "t", ".", " ">>,
     <<"e", "x", "t", " ">>,
     <<"E", "X", "T", ".">>,
     <<"F", "A", "D", "E", " ">>,
     <<"c", "u", "t", " ">>,
     <<"D", "I", "S", "S", "O", "L", "V", "E", " ">>,
     <<"I", "N", "T", "\t">>,
     <<"C", "U", "T", "\n">>}

ControlChars == {"\n", "\t"}

ScriptChars == UNION {{s[k] : k \in DOMAIN s} : s \in Scripts} \ ControlChars

\* Texts inserted whole: by paste, or by editor.insertText with more than
\* one character.
InsertedTexts ==
    {<<" ">>, <<"T", " ">>, <<"I", "N", "T", " ">>, <<"c", "u", "t", " ">>,
     <<"E", "X", "T", ".">>}

IsPieceOf(t, s) ==
    \E i \in 0..(Len(s) - Len(t)) : SubSeq(s, i + 1, i + Len(t)) = t

RECURSIVE AllText(_)
AllText(ch) == IF ch = <<>> THEN <<>> ELSE Head(ch).text \o AllText(Tail(ch))

InScripts(ch) ==
    /\ Len(ch) <= MaxBlocks
    /\ Len(ch) > 1 => Len(AllText(ch)) <= MaxSplitChars
    /\ \E s \in Scripts : IsPieceOf(AllText(ch), s)

InitTyping ==
    /\ children \in {<<Block(t, <<>>)>> : t \in BlockTypes}
                      \cup {<<Block("character", <<>>), Block("action", <<>>)>>}
    /\ selection = Point(1, 0)
    /\ showCommandPalette = FALSE
    /\ selectedIndex = 0
    /\ event = Ev("Init", "", 0)
    /\ nav = NavInit
    /\ fmt = FmtInit
    /\ pdf = PdfInit
    /\ app = AppInit
    /\ storage = StorageInit

\* The event `key` leaves the editor as r.ed after r.setNodes calls of
\* Transforms.setNodes.
Typed(key, r) ==
    /\ InScripts(r.ed.children)
    /\ children' = r.ed.children
    /\ selection' = r.ed.selection
    /\ fmt' = [fmt EXCEPT !.setNodes = r.setNodes]
    /\ event' = Ev(key, "", 0)
    /\ UNCHANGED <<showCommandPalette, selectedIndex, nav, pdf, app,
                   storage>>

TypingClick(b, o) ==
    /\ Point(b, o) # selection
    /\ Typed("Pointer", [ed |-> Editor(children, Point(b, o)), setNodes |-> 0])

\* A character key.
TypeChar(c) ==
    /\ c \notin ControlChars
    /\ Typed("Char", insertTextCalls(Current, <<c>>))

\* editor.insertText('\n') or editor.insertText('\t')
TypeControl(c) ==
    /\ c \in ControlChars
    /\ Typed("Control", insertTextCalls(Current, <<c>>))

\* editor.insertText(text) with a text of more than one character.
TypeText(str) ==
    /\ Len(str) > 1
    /\ Typed("Text", insertTextCalls(Current, str))

\* A paste of plain text.
Paste(str) ==
    /\ str # <<>>
    /\ Typed("Paste", [ed |-> insertData(Current, str), setNodes |-> 0])

TypingBackspace ==
    /\ selection # NoSelection
    /\ Typed("DeleteBackward", [ed |-> deleteBackward(Current), setNodes |-> 0])

TypingDelete ==
    /\ selection # NoSelection
    /\ Typed("DeleteForward", [ed |-> deleteForward(Current), setNodes |-> 0])

NextTyping ==
    \/ \E b \in 1..Len(children) : \E o \in 0..Len(children[b].text) :
         TypingClick(b, o)
    \/ \E c \in ScriptChars : TypeChar(c)
    \/ \E c \in ControlChars : TypeControl(c)
    \/ \E str \in InsertedTexts : TypeText(str)
    \/ \E str \in InsertedTexts : Paste(str)
    \/ TypingBackspace
    \/ TypingDelete

SpecTyping == InitTyping /\ [][NextTyping]_vars

(***************************************************************************)
(* The loop of editor.insertText over rule lists other than the editor's   *)
(* own: every list of up to MaxRules rules of RulePool, and                *)
(* autoFormatPatterns itself.  "INT a" is typed into an empty block.       *)
(***************************************************************************)
MaxRules == 2

RulePool ==
    {[keyword |-> <<"I", "N", "T">>, dot |-> TRUE, type |-> "scene-heading"],
     [keyword |-> <<"I", "N", "T">>, dot |-> FALSE, type |-> "transition"],
     [keyword |-> <<"I", "N">>, dot |-> FALSE, type |-> "action"],
     [keyword |-> <<"C", "U", "T">>, dot |-> FALSE, type |-> "transition"]}

RuleLists ==
    {autoFormatPatterns}
        \cup UNION {[1..n -> RulePool] : n \in 0..MaxRules}

RuleScript == <<"I", "N", "T", " ", "a">>

InitRules ==
    /\ children \in {<<Block(t, <<>>)>> : t \in BlockTypes}
    /\ selection = Point(1, 0)
    /\ showCommandPalette = FALSE
    /\ selectedIndex = 0
    /\ event = Ev("Init", "", 0)
    /\ nav = NavInit
    /\ fmt \in {[rules |-> rules, setNodes |-> 0] : rules \in RuleLists}
    /\ pdf = PdfInit
    /\ app = AppInit
    /\ storage = StorageInit

\* The next character of RuleScript is typed at the end of the block.
RuleChar ==
    /\ selection.anchor < Len(RuleScript)
    /\ LET r == insertTextOver(fmt.rules, Current,
                               <<RuleScript[selection.anchor + 1]>>)
       IN /\ children' = r.ed.children
          /\ selection' = r.ed.selection
          /\ fmt' = [fmt EXCEPT !.setNodes = r.setNodes]
    /\ event' = Ev("RuleChar", "", 0)
    /\ UNCHANGED <<showCommandPalette, selectedIndex, nav, pdf, app,
                   storage>>

NextRules == RuleChar

SpecRules == InitRules /\ [][NextRules]_vars

(***************************************************************************)
(* The PDF export alone: a document of any number of body lines up to      *)
(* MaxLines, with or without a title page, is exported, one pass of the    *)
(* loop over its lines at a time.                                          *)
(***************************************************************************)
InitPdf ==
    /\ children = <<Block("action", <<>>)>>
    /\ selection = NoSelection
    /\ showCommandPalette = FALSE
    /\ selectedIndex = 0
    /\ event = Ev("Init", "", 0)
    /\ nav = NavInit
    /\ fmt = FmtInit
    /\ pdf \in {NotExported(n, t) : n \in 0..MaxLines, t \in BOOLEAN}
    /\ app = AppInit
    /\ storage = StorageInit

\* handleExportPDF up to the loop: a new PDF document, the title page when
\* there is one, the first content page, yPosition at its top.
ExportStart ==
    /\ pdf.phase # "drawing"
    /\ pdf' = [pdf EXCEPT !.phase = "drawing",
                          !.next = 1,
                          !.pages = (IF pdf.titlePage THEN 1 ELSE 0) + 1,
                          !.yPosition = pageHeight - marginTop,
                          !.drawn = <<>>]
    /\ UNCHANGED <<children, selection, showCommandPalette, selectedIndex,
                   event, nav, fmt, app, storage>>

\* One pass of the loop, for the next line of the body.
ExportLine ==
    /\ pdf.phase = "drawing"
    /\ pdf.next <= pdf.lines
    /\ LET st == DrawLine([pages |-> pdf.pages, yPosition |-> pdf.yPosition,
                           drawn |-> pdf.drawn], pdf.next)
       IN pdf' = [pdf EXCEPT !.next = pdf.next + 1,
                             !.pages = st.pages,
                             !.yPosition = st.yPosition,
                             !.drawn = st.drawn]
    /\ UNCHANGED <<children, selection, showCommandPalette, selectedIndex,
                   event, nav, fmt, app, storage>>

\* The loop is over: pdfDoc.save() and the download.
ExportSave ==
    /\ pdf.phase = "drawing"
    /\ pdf.next > pdf.lines
    /\ pdf' = [pdf EXCEPT !.phase = "saved"]
    /\ UNCHANGED <<children, selection, showCommandPalette, selectedIndex,
                   event, nav, fmt, app, storage>>

NextPdf == ExportStart \/ ExportLine \/ ExportSave

SpecPdf == InitPdf /\ [][NextPdf]_vars

(***************************************************************************)
(* The arrow keys alone, from a palette just opened, with the history of   *)
(* the run of arrow keys: the direction of the last key and of the one     *)
(* before, how many keys in a row had the last key's direction (counted up *)
(* to commands.length, then again from 1), the index that run started      *)
(* from, and the index one and two keys back.                              *)
(***************************************************************************)
InitNav ==
    /\ children = <<Block("action", <<"/">>)>>
    /\ selection = Point(1, 1)
    /\ showCommandPalette = TRUE
    /\ selectedIndex = 0
    /\ event = Ev("Slash", "", 0)
    /\ nav = NavInit
    /\ fmt = FmtInit
    /\ pdf = PdfInit
    /\ app = AppInit
    /\ storage = StorageInit

NavAfter(dir) ==
    LET continues == nav.dir = dir /\ nav.count < commandsLength
    IN [dir |-> dir,
        count |-> IF continues THEN nav.count + 1 ELSE 1,
        start |-> IF continues THEN nav.start ELSE selectedIndex,
        prevDir |-> nav.dir,
        oneBack |-> selectedIndex,
        twoBack |-> nav.oneBack]

NavArrowDown ==
    /\ showCommandPalette
    /\ selectedIndex' = ArrowDownIndex(selectedIndex)
    /\ nav' = NavAfter("down")
    /\ UNCHANGED <<children, selection, showCommandPalette, event, fmt, pdf, app,
                   storage>>

NavArrowUp ==
    /\ showCommandPalette
    /\ selectedIndex' = ArrowUpIndex(selectedIndex)
    /\ nav' = NavAfter("up")
    /\ UNCHANGED <<children, selection, showCommandPalette, event, fmt, pdf, app,
                   storage>>

NextNav == NavArrowDown \/ NavArrowUp

SpecNav == InitNav /\ [][NextNav]_vars

(***************************************************************************)
(* The export of a document: the Export PDF button is clicked, the content *)
(* pages are drawn and the PDF is saved and downloaded, while the user may *)
(* type in the editor.                                                     *)
(*                                                                         *)
(* The awaits of handleExportPDF before `editorRef.current.getValue()`     *)
(* (PDFDocument.create and the embedFont calls for standard fonts) do no   *)
(* input or output: their promises are resolved when they are returned,    *)
(* and the handler goes on in microtasks, before the browser handles any   *)
(* other event.  So the click and the read are one step.  pdfDoc.save()    *)
(* waits on timers, and events can be handled before it resolves.          *)
(***************************************************************************)
ExportTexts ==
    {<<>>, <<"a">>, <<"s", "sz">>, <<" ">>,
     <<"a", "\n", " ", "\n", " ", "b">>, <<"ta">>}

ExportDocs ==
    {<<Block(t, x)>> : t \in BlockTypes, x \in ExportTexts}
      \cup {<<Block("scene-heading", <<"a">>), Block(t, <<"a", "\n", "b">>)>> :
              t \in {"action", "dialogue"}}
      \cup {[k \in 1..LongDocLines |-> Block("action", <<"a">>)]}

TitlePages ==
    {[title |-> t, author |-> a, contact |-> c, basedOn |-> b] :
       t \in {<<>>, <<"s", "sz">>}, a \in {<<>>, <<"a">>},
       c \in {<<>>, <<"c">>}, b \in {<<>>, <<"b">>}}

InitExport ==
    /\ children \in ExportDocs
    /\ selection = Point(1, 0)
    /\ showCommandPalette = FALSE
    /\ selectedIndex = 0
    /\ event = Ev("Init", "", 0)
    /\ nav = NavInit
    /\ fmt = FmtInit
    /\ pdf = PdfInit
    /\ app \in {[AppInit EXCEPT !.titlePage = tp, !.showTitlePage = show] :
                  tp \in TitlePages, show \in BOOLEAN}
    /\ storage = StorageInit

\* handleExportPDF from the click to `const content = getValue()`: the
\* document is read.  atTrigger is the document as it was at the click.
ExportTrigger ==
    /\ app.export.phase = "idle"
    /\ app' = [app EXCEPT !.export = [NoExport EXCEPT !.phase = "read",
                                                      !.atTrigger = children,
                                                      !.content = children]]
    /\ UNCHANGED <<children, selection, showCommandPalette, selectedIndex,
                   event, nav, fmt, pdf, storage>>

\* The user types a character at the end of the first block while the
\* export is under way (Slate calls onChange, which sets `value`); once in
\* each step of the export.
ExportEdit ==
    /\ app.export.phase \in {"read", "drawn"}
    /\ app.export.phase \notin app.export.editedAt
    /\ children' = [children EXCEPT ![1].text = Append(@, "b")]
    /\ app' = [app EXCEPT !.export.editedAt = @ \cup {app.export.phase}]
    /\ UNCHANGED <<selection, showCommandPalette, selectedIndex, event, nav,
                   fmt, pdf, storage>>

\* handleExportPDF from the title page to the loop over the lines: the
\* title page is drawn when there is one, the content is formatted and the
\* first content page added; or a text of the title page cannot be encoded
\* and the catch shows the alert.  The nodes formatContentForPDF was given
\* are those of the document when it has not changed since the read.
ExportDraw ==
    /\ app.export.phase = "read"
    /\ LET titled == hasTitlePage(app.showTitlePage, app.titlePage)
           tp == app.titlePage
           formatted == formatContentForPDF(
                            ContentToDraw(app.export.content, children))
           drawable == titled =>
                         \A t \in {tp.title, tp.author, tp.basedOn,
                                   tp.contact} : CanEncode(t)
       IN /\ app' = IF ~drawable
                      THEN [app EXCEPT !.export.phase = "failed",
                                       !.alert = "Failed to export PDF"]
                      ELSE [app EXCEPT
                              !.export.phase =
                                 IF formatted.result = <<>> THEN "drawn"
                                 ELSE "drawing",
                              !.export.pages =
                                 PagesOf((IF titled THEN 1 ELSE 0) + 1,
                                         titled),
                              !.export.formatted = formatted.result,
                              !.export.drawn =
                                 IF titled THEN TitlePageDrawings(tp)
                                 ELSE <<>>,
                              !.export.next = 1,
                              !.export.yPosition = pageHeight - marginTop]
          /\ children' = IF ~drawable \/ children # app.export.content
                           THEN children
                           ELSE formatted.nodes
    /\ UNCHANGED <<selection, showCommandPalette, selectedIndex, event, nav,
                   fmt, pdf, storage>>

\* One pass of the loop over the lines: the line is drawn, on a new page
\* when it does not fit, or its text cannot be encoded and the catch shows
\* the alert.  After the last pass pdfDoc.save() is called.
ExportDrawLine ==
    /\ app.export.phase = "drawing"
    /\ LET e == app.export
           line == e.formatted[e.next]
           st == DrawLine([pages |-> Len(e.pages), yPosition |-> e.yPosition,
                           drawn |-> <<>>], line)
       IN app' = IF ~CanEncode(line.text)
                   THEN [app EXCEPT !.export.phase = "failed",
                                    !.alert = "Failed to export PDF"]
                   ELSE [app EXCEPT
                           !.export.phase =
                              IF e.next = Len(e.formatted) THEN "drawn"
                              ELSE "drawing",
                           !.export.pages =
                              PagesOf(st.pages,
                                      e.pages[1] = "title"),
                           !.export.drawn =
                              Append(e.drawn, BodyDrawing(st.drawn[1])),
                           !.export.next = e.next + 1,
                           !.export.yPosition = st.yPosition]
    /\ UNCHANGED <<children, selection, showCommandPalette, selectedIndex,
                   event, nav, fmt, pdf, storage>>

\* pdfDoc.save() has resolved: the PDF is downloaded.
ExportDownload ==
    /\ app.export.phase = "drawn"
    /\ app' = [app EXCEPT !.export.phase = "saved"]
    /\ UNCHANGED <<children, selection, showCommandPalette, selectedIndex,
                   event, nav, fmt, pdf, storage>>

NextExport ==
    ExportTrigger \/ ExportEdit \/ ExportDraw \/ ExportDrawLine \/ ExportDownload

SpecExport == InitExport /\ [][NextExport]_vars

(***************************************************************************)
(* The toolbar alone: clicks in the editor and the six toolbar buttons, on *)
(* documents of one or two blocks.                                         *)
(***************************************************************************)
ToggleDocs ==
    {<<Block(t, x)>> : t \in BlockTypes, x \in {<<>>, <<"a">>}}
      \cup {<<Block(t, <<"a">>), Block(u, <<"b">>)>> :
              t \in {"paragraph", "action"}, u \in {"paragraph", "dialogue"}}

InitToggle ==
    /\ children \in ToggleDocs
    /\ selection = NoSelection
    /\ showCommandPalette = FALSE
    /\ selectedIndex = 0
    /\ event = Ev("Init", "", 0)
    /\ nav = NavInit
    /\ fmt = FmtInit
    /\ pdf = PdfInit
    /\ app = AppInit
    /\ storage = StorageInit

\* A click in a block: the selection is set there.
ToggleClick ==
    /\ \E b \in DOMAIN children :
         \E o \in 0..Len(LowestBlock(children[b]).text) :
            selection' = Point(b, o)
    /\ event' = Ev("Click", "", 0)
    /\ UNCHANGED <<children, showCommandPalette, selectedIndex, nav, fmt, pdf,
                   app, storage>>

\* onMouseDown of a toolbar button: toggleBlock(editor, format).
ToolbarButton(format) ==
    /\ format \in ToolbarFormats
    /\ LET ed == toggleBlock(Editor(children, selection), format)
       IN /\ children' = ed.children
          /\ selection' = ed.selection
    /\ event' = Ev("Toggle", format, 0)
    /\ UNCHANGED <<showCommandPalette, selectedIndex, nav, fmt, pdf, app,
                   storage>>

NextToggle == ToggleClick \/ \E format \in ToolbarFormats : ToolbarButton(format)

SpecToggle == InitToggle /\ [][NextToggle]_vars

(***************************************************************************)
(* Saving: the Save button, the requests of saveCurrentScreenplay to the   *)
(* server and the writes to localStorage, with edits of the document and   *)
(* of its title between saves.  A request may fail to reach the server and *)
(* a localStorage.setItem may throw.  The application has loaded the       *)
(* server's sample screenplay (loadScreenplay takes the title and the      *)
(* title page of the row updated last) and the title form is shown.        *)
(***************************************************************************)
SaveDocs == {<<Block("action", <<"a">>)>>, <<Block("action", <<"a", "b">>)>>}

Titles == {"Sample Screenplay", "sample-1"}

InitSave ==
    /\ children \in SaveDocs
    /\ selection = NoSelection
    /\ showCommandPalette = FALSE
    /\ selectedIndex = 0
    /\ event = Ev("Init", "", 0)
    /\ nav = NavInit
    /\ fmt = FmtInit
    /\ pdf = PdfInit
    /\ app = [AppInit EXCEPT !.showTitlePage = TRUE,
                             !.currentDocument = sampleScreenplay.title,
                             !.titlePage = sampleScreenplay.title_page]
    /\ storage = StorageInit

\* The user edits the document while no save is under way (the record of
\* the last save is dropped).
SaveEdit ==
    /\ ~app.isSaving
    /\ children' \in SaveDocs \ {children}
    /\ app' = [app EXCEPT !.save = NoSave, !.lookup = NoLookup]
    /\ UNCHANGED <<selection, showCommandPalette, selectedIndex, event, nav,
                   fmt, pdf, storage>>

\* onChange of the title input: the title of the title page (kept as one
\* unit of text) and the document's title (the record of the last save is
\* dropped).
SaveRename(title) ==
    /\ ~app.isSaving
    /\ app.showTitlePage
    /\ title # app.currentDocument
    /\ app' = [app EXCEPT !.titlePage.title = <<title>>,
                          !.currentDocument =
                             IF title = "" THEN "Untitled Screenplay"
                             ELSE title,
                          !.save = NoSave,
                          !.lookup = NoLookup]
    /\ UNCHANGED <<children, selection, showCommandPalette, selectedIndex,
                   event, nav, fmt, pdf, storage>>

\* handleSave up to its await: isSaving is set, the document read and
\* saveCurrentScreenplay called; or nothing, when a save is under way.
SaveClick ==
    /\ Len(storage.db) < MaxRows
    /\ app.save.inFlight < MaxInFlight
    /\ app' = IF CanStartSave(app.isSaving)
                THEN [app EXCEPT !.isSaving = TRUE,
                                 !.save = [NoSave EXCEPT
                                             !.phase = "pending",
                                             !.content = children,
                                             !.titlePage = app.titlePage,
                                             !.title = app.currentDocument,
                                             !.inFlight =
                                                app.save.inFlight + 1]]
                ELSE [app EXCEPT !.save.ignored = TRUE]
    /\ UNCHANGED <<children, selection, showCommandPalette, selectedIndex,
                   event, nav, fmt, pdf, storage>>

\* saveCurrentScreenplay settles and handleSave goes on to its end: the
\* requests are served, localStorage is written, the alert is shown and
\* isSaving is reset.  `first` and `second` are the numbers of setItem calls
\* that can succeed in the attempt of the try and in that of the catch (0
\* for an attempt the code cannot come to).  `lookup` records the
\* getScreenplay call made.
SaveSettled ==
    /\ app.save.phase = "pending"
    /\ \E net \in [{"get", "put", "post"} -> BOOLEAN] :
         LET s == app.save
             response == IF net.get THEN ServerGet(storage.db, s.title)
                         ELSE Unreached
             got == getScreenplay(response)
             saved == saveCurrentScreenplay(
                          storage.db, s.title, s.content, s.titlePage, net,
                          NewIds[Len(storage.db)])
         IN \E first \in IF saved.ok THEN 0..Len(LocalKeys) ELSE {0} :
            \E second \in IF saved.ok /\ first = Len(LocalKeys) THEN {0}
                           ELSE 0..Len(LocalKeys) :
               LET out == SaveOutcome(saved.ok, first, second)
                   after1 == SetItems(storage.local, out.attempts[1],
                                      s.content, s.titlePage, s.title)
                   after2 == IF Len(out.attempts) = 2
                               THEN SetItems(after1, out.attempts[2],
                                             s.content, s.titlePage, s.title)
                               ELSE after1
               IN /\ storage' = [storage EXCEPT
                                   !.db = saved.db,
                                   !.local = IF out.attempts = <<>>
                                               THEN storage.local ELSE after2]
                  /\ app' = [app EXCEPT
                               !.isSaving = FALSE,
                               !.alert = out.alert,
                               !.save.phase = "done",
                               !.save.inFlight = app.save.inFlight - 1,
                               !.save.dbOk = saved.ok,
                               !.save.first = first,
                               !.save.second = second,
                               !.save.attempts = out.attempts,
                               !.save.requests = saved.requests,
                               !.lookup = [id |-> s.title,
                                           status |-> response.status,
                                           found |-> RowsWithId(storage.db,
                                                                s.title) # {},
                                           outcome |-> got.outcome,
                                           message |-> got.message]]
    /\ UNCHANGED <<children, selection, showCommandPalette, selectedIndex,
                   event, nav, fmt, pdf>>

NextSave ==
    \/ SaveEdit
    \/ \E title \in Titles : SaveRename(title)
    \/ SaveClick
    \/ SaveSettled

SpecSave == InitSave /\ [][NextSave]_vars

\* The request of a save settles: fetch resolves or rejects, and the rest of
\* handleSave runs.
SpecSaveFair == SpecSave /\ WF_vars(SaveSettled)

(***************************************************************************)
(* Sessions: the saves of SpecSave, and the application loaded anew (the   *)
(* page is opened again), with the server within reach or not.             *)
(***************************************************************************)
\* The mount of App and of the editor, and loadScreenplay to its end.  The
\* editor is mounted in the first render of App, when initialContent is
\* null (useState(null)); no render is held back while isLoading.  The
\* record of the last save is kept, its phase "loaded".
Reload ==
    /\ ~app.isSaving
    /\ app.save.phase = "done"
    /\ \E up \in BOOLEAN :
         LET loaded == loadScreenplay(up, storage.db, storage.local)
         IN /\ children' = EditorValueAtMount(TRUE, loaded.initialContent)
            /\ app' = [AppInit EXCEPT
                         !.titlePage =
                            IF "titlePage" \in loaded.has
                            THEN loaded.titlePage ELSE AppInit.titlePage,
                         !.currentDocument =
                            IF "currentDocument" \in loaded.has
                            THEN loaded.currentDocument
                            ELSE AppInit.currentDocument,
                         !.save = [app.save EXCEPT !.phase = "loaded"],
                         !.lookup = [NoLookup EXCEPT
                                       !.outcome = IF up THEN "up"
                                                   ELSE "down"]]
    /\ selection' = NoSelection
    /\ UNCHANGED <<showCommandPalette, selectedIndex, event, nav, fmt, pdf,
                   storage>>

NextSession ==
    \/ SaveEdit
    \/ \E title \in Titles : SaveRename(title)
    \/ SaveClick
    \/ SaveSettled
    \/ Reload

SpecSession == InitSave /\ [][NextSession]_vars

(***************************************************************************)
(* The server's routes, requested directly (the REST API of the README):   *)
(* ids stored or not, bodies with or without a title and a content.        *)
(***************************************************************************)
ServerIds == {sampleScreenplay.id, NewIds[1], "missing"}

ServerBodies ==
    {[hasTitle |-> ht, title |-> IF ht THEN t ELSE "",
      hasContent |-> hc,
      content |-> IF hc THEN <<Block("action", <<"n">>)>> ELSE <<>>,
      title_page |-> [NoTitlePage EXCEPT !.title = <<"New">>]] :
        ht \in BOOLEAN, hc \in BOOLEAN, t \in {"", "New"}}

\* The request served and the table after it.
Served(method, id, body, response, db, list) ==
    storage' = [storage EXCEPT
                  !.db = db,
                  !.last = [method |-> method, id |-> id,
                            hasTitle |-> body.hasTitle,
                            hasContent |-> body.hasContent,
                            body |-> [id |-> id, title |-> body.title,
                                      content |-> body.content,
                                      title_page |-> body.title_page],
                            status |-> response.status,
                            row |-> response.row,
                            list |-> list,
                            before |-> storage.db,
                            inserted |-> storage.last.inserted
                                           + IF Len(db) > Len(storage.db)
                                             THEN 1 ELSE 0]]

NoBody ==
    [hasTitle |-> FALSE, title |-> "", hasContent |-> FALSE,
     content |-> <<>>, title_page |-> NoTitlePage]

RequestList ==
    /\ Served("LIST", "", NoBody, Response(200, <<>>, NoRow), storage.db,
              ServerList(storage.db))
    /\ UNCHANGED <<children, selection, showCommandPalette, selectedIndex,
                   event, nav, fmt, pdf, app>>

RequestGet(id) ==
    /\ Served("GET", id, NoBody, ServerGet(storage.db, id), storage.db, <<>>)
    /\ UNCHANGED <<children, selection, showCommandPalette, selectedIndex,
                   event, nav, fmt, pdf, app>>

RequestPost(body) ==
    /\ Len(storage.db) < MaxRows
    /\ storage.last.inserted < MaxRows
    /\ LET post == ServerPost(storage.db, body,
                              NewIds[storage.last.inserted + 1])
       IN Served("POST", "", body, post.response, post.db, <<>>)
    /\ UNCHANGED <<children, selection, showCommandPalette, selectedIndex,
                   event, nav, fmt, pdf, app>>

RequestPut(id, body) ==
    /\ LET put == ServerPut(storage.db, id, body)
       IN Served("PUT", id, body, put.response, put.db, <<>>)
    /\ UNCHANGED <<children, selection, showCommandPalette, selectedIndex,
                   event, nav, fmt, pdf, app>>

RequestDelete(id) ==
    /\ LET del == ServerDelete(storage.db, id)
       IN Served("DELETE", id, NoBody, del.response, del.db, <<>>)
    /\ UNCHANGED <<children, selection, showCommandPalette, selectedIndex,
                   event, nav, fmt, pdf, app>>

NextServer ==
    \/ RequestList
    \/ \E id \in ServerIds : RequestGet(id)
    \/ \E body \in ServerBodies : RequestPost(body)
    \/ \E id \in ServerIds : \E body \in ServerBodies : RequestPut(id, body)
    \/ \E id \in ServerIds : RequestDelete(id)

SpecServer == InitSave /\ [][NextServer]_vars

(***************************************************************************)
(* Enter pressed twice: the first confirms the palette's selection, the    *)
(* second arrives when the palette has closed.                             *)
(***************************************************************************)
\* The Enter key right after a confirm closed the palette.  CommandPalette's
\* handleKeyDown returns at `if (!isOpen) return`; the editor's handleKeyDown
\* runs its Enter branch.
EnterAfterConfirm ==
    /\ ~showCommandPalette
    /\ event.key \in {"PaletteEnter", "PaletteClick"}
    /\ selection # NoSelection
    /\ children' = handleEnter(Current).children
    /\ selection' = handleEnter(Current).selection
    /\ event' = Ev("EnterClosed", event.command, selection'.block)
    /\ UNCHANGED <<showCommandPalette, selectedIndex, nav, fmt, pdf, app,
                   storage>>

NextConfirm ==
    \/ \E b \in 1..Len(children) : \E o \in 0..Len(children[b].text) : Click(b, o)
    \/ KeySlash
    \/ PaletteArrowDown
    \/ PaletteEnter
    \/ \E k \in 0..(commandsLength - 1) : PaletteClick(k)
    \/ EnterAfterConfirm

SpecConfirm == Init /\ [][NextConfirm]_vars

(***************************************************************************)
(* "/" and then Escape: the palette opened and closed again, in documents  *)
(* whose text was typed or pasted, with a cursor or a range selected.      *)
(* The event of "/" keeps the editor as it was before the key.             *)
(***************************************************************************)
SlashDocs ==
    {<<Block(t, x)>> : t \in BlockTypes,
                       x \in {<<>>, <<"a">>, <<"c", "u", "t", " ">>}}
      \cup {<<Block("character", <<"a">>), Block("dialogue", <<"b">>)>>}

NoEditor == Editor(<<>>, NoSelection)

\* The most characters of a document in which "/" is pressed.
MaxSlashChars == 5

InitSlash ==
    /\ children \in SlashDocs
    /\ selection = NoSelection
    /\ showCommandPalette = FALSE
    /\ selectedIndex = 0
    /\ event = Ev("Init", "", 0)
    /\ nav = NavInit
    /\ fmt = FmtInit
    /\ pdf = PdfInit
    /\ app = AppInit
    /\ storage = StorageInit

\* "/" with the palette closed: handleKeyDown shows the palette and the
\* default insertion of "/" follows.
SlashPressed ==
    /\ ~showCommandPalette
    /\ selection # NoSelection
    /\ Len(AllText(children)) < MaxSlashChars
    /\ children' = insertText(Current, <<"/">>).children
    /\ selection' = insertText(Current, <<"/">>).selection
    /\ showCommandPalette' = TRUE
    /\ selectedIndex' = ResetEffect(TRUE, selectedIndex)
    /\ event' = [key |-> "Slash", command |-> "", at |-> 0,
                 before |-> Current]
    /\ UNCHANGED <<nav, fmt, pdf, app, storage>>

\* Escape with the palette shown: onClose().  The key is "SlashEscape" when
\* no event came between "/" and it.
EscapePressed ==
    /\ showCommandPalette
    /\ children' = handleCommandClose(Current).children
    /\ selection' = handleCommandClose(Current).selection
    /\ showCommandPalette' = FALSE
    /\ selectedIndex' = ResetEffect(FALSE, selectedIndex)
    /\ event' = IF event.key = "Slash"
                  THEN [event EXCEPT !.key = "SlashEscape"]
                  ELSE [key |-> "PaletteEscape", command |-> "", at |-> 0,
                        before |-> NoEditor]
    /\ UNCHANGED <<nav, fmt, pdf, app, storage>>

NextSlash ==
    \/ \E b \in 1..Len(children) : \E o \in 0..Len(children[b].text) : Click(b, o)
    \/ \E b \in 1..Len(children) : \E a \in 0..Len(children[b].text) :
         \E f \in (a + 1)..Len(children[b].text) : SelectRange(b, a, f)
    \/ SlashPressed
    \/ EscapePressed

SpecSlash == InitSlash /\ [][NextSlash]_vars

(***************************************************************************)
(* Properties.                                                             *)
(***************************************************************************)

\* ch2, sel2 are ch with one empty block of type `type` inserted at the
\* collapsed cursor sel and the cursor inside it: after the cursor's block
\* when the cursor is at the end of its text, before it when the cursor is
\* at the start of a text that is not empty, and otherwise between the two
\* parts of the block, split at the cursor.
InsertedAtCursor(ch, sel, ch2, sel2, type) ==
    LET b == sel.block
        o == sel.anchor
        cur == ch[b]
        k == sel2.block
    IN /\ sel2 = Point(k, 0)
       /\ k \in 1..Len(ch2)
       /\ ch2[k] = Block(type, <<>>)
       /\ IF o = Len(cur.text) THEN k = b + 1 /\ RemoveAt(ch2, k) = ch
          ELSE IF o = 0 THEN k = b /\ RemoveAt(ch2, k) = ch
          ELSE /\ k = b + 1
               /\ Len(ch2) = Len(ch) + 2
               /\ ch2[b] = Block(cur.type, Take(cur.text, o))
               /\ ch2[b + 2] = Block(cur.type, Drop(cur.text, o))
               /\ Take(ch2, b - 1) = Take(ch, b - 1)
               /\ Drop(ch2, b + 2) = Drop(ch, b)

\* Exactly one empty block of type `type` is inserted immediately after the
\* cursor's block, the cursor ends in it, and nothing else changes.
InsertedAfterBlock(ch, sel, ch2, sel2, type) ==
    /\ ch2 = InsertAt(ch, sel.block + 1, Block(type, <<>>))
    /\ sel2 = Point(sel.block + 1, 0)

AtEndOfText(ch, sel) == sel.anchor = Len(ch[sel.block].text)

\* An Enter key handled with the palette closed, a collapsed selection and
\* the cursor in a block whose type is in `types`.
EnterIn(types) ==
    /\ event'.key = "Enter"
    /\ IsCollapsed(selection)
    /\ children[selection.block].type \in types

C3_Original ==
    [][event'.key = "Tab"
         => /\ Len(children') > Len(children)
            /\ children'[selection'.block] = Block("character", <<>>)
            /\ selection' = Point(selection'.block, 0)]_vars

\* C3, amended: with a collapsed selection Tab inserts exactly one empty
\* Character block at the cursor, whatever the enclosing block's type, and
\* moves the cursor into it; with a selection that is not collapsed Tab
\* changes neither the document nor the selection.
C3_TabInsertsCharacter ==
    [][event'.key = "Tab"
         => IF IsCollapsed(selection)
            THEN InsertedAtCursor(children, selection, children', selection',
                                  "character")
            ELSE children' = children /\ selection' = selection]_vars

\* Tab has inserted an empty Character block, here after a Dialogue block,
\* and the cursor is in it.
C3_Witness ==
    /\ event.key = "Tab"
    /\ selection.block > 1
    /\ selection = Point(selection.block, 0)
    /\ children[selection.block] = Block("character", <<>>)
    /\ children[selection.block - 1].type = "dialogue"

\* The document with the character before the collapsed cursor removed, and
\* the cursor there.
CharBeforeCursorRemoved(ch, sel) ==
    Editor([ch EXCEPT ![sel.block] =
                Block(ch[sel.block].type, RemoveAt(ch[sel.block].text, sel.anchor))],
           Point(sel.block, sel.anchor - 1))

\* C4: Enter in the palette deletes exactly one character immediately
\* before the cursor, inserts exactly one empty block of the type mapped to
\* the command at selectedIndex at the cursor, moves the cursor into that
\* block and closes the palette.
C4_Original ==
    [][event'.key = "PaletteEnter"
         => /\ IsCollapsed(selection)
            /\ selection.anchor > 0
            /\ LET d == CharBeforeCursorRemoved(children, selection)
               IN InsertedAtCursor(d.children, d.selection, children',
                                   selection',
                                   elementMap(commands[selectedIndex + 1]))
            /\ ~showCommandPalette']_vars

\* C5: whatever happened while the palette was open, Escape in the palette
\* removes exactly one character, a "/", inserts no block and closes the
\* palette.  (The claim says more, that the "/" removed is the one that
\* opened the palette; what is stated here follows from it.)
C5_Original ==
    [][event'.key = "PaletteEscape"
         => /\ ~showCommandPalette'
            /\ \E b \in 1..Len(children) : \E k \in 1..Len(children[b].text) :
                 /\ children[b].text[k] = "/"
                 /\ children' = [children EXCEPT ![b] =
                        Block(children[b].type, RemoveAt(children[b].text, k))]]_vars

\* C6: while the palette is open, a key other than ArrowUp, ArrowDown,
\* Enter and Escape leaves the block sequence, the block types and the block
\* texts unchanged.
C6_Original ==
    [][showCommandPalette /\ event'.key = "Key" => children' = children]_vars

CommandIndex(command) ==
    CHOOSE k \in 0..(commandsLength - 1) : commands[k + 1] = command

\* The state a confirmation of `command` leads to from the current one.
ConfirmedFrom(command) ==
    LET e == handleCommandSelect(Current, command)
    IN <<e.children, e.selection, FALSE, 0>>

\* C7: a click on the item of a command leads to the document, cursor and
\* palette state that Enter leads to when selectedIndex is that item's
\* index, for every command and whatever selectedIndex is at the click; and
\* Enter leads to the state a click on the item at selectedIndex leads to.
C7_ClickAsEnter ==
    [][/\ event'.key = "PaletteClick"
          => <<children', selection', showCommandPalette', selectedIndex'>>
               = ConfirmedFrom(EnterSelects(CommandIndex(event'.command)))
       /\ event'.key = "PaletteEnter"
          => <<children', selection', showCommandPalette', selectedIndex'>>
               = ConfirmedFrom(ClickSelects(selectedIndex))]_vars

\* A click on the Transition item has inserted an empty Transition block
\* and closed the palette.
C7_Witness ==
    /\ event.key = "PaletteClick"
    /\ event.command = "transition"
    /\ children[event.at] = Block("transition", <<>>)
    /\ ~showCommandPalette

\* The block type of each command id, as the catalog is specified.
ExpectedType(command) ==
    CASE command = "scene" -> "scene-heading"
      [] command = "action" -> "action"
      [] command = "character" -> "character"
      [] command = "dialogue" -> "dialogue"
      [] command = "parenthetical" -> "parenthetical"
      [] command = "transition" -> "transition"
      [] command = "dual" -> "dialogue"
      [] command \in {"shot", "text", "note", "outline", "newact", "endact",
                      "lyrics", "image", "sequence"} -> "action"

\* C8: the catalog has 16 command ids, each mapped to its block type of the
\* enumeration (dual to Dialogue, shot ... sequence to Action), and
\* confirming a command, by Enter or by a click, inserts an empty block of
\* exactly that type.
C8_CommandTypes ==
    [][/\ commandsLength = 16
       /\ \A k \in 1..commandsLength :
            /\ elementMap(commands[k]) = ExpectedType(commands[k])
            /\ elementMap(commands[k]) \in BlockTypes
       /\ event'.key = "PaletteEnter"
            => children'[event'.at]
                 = Block(ExpectedType(commands[selectedIndex + 1]), <<>>)
       /\ event'.key = "PaletteClick"
            => children'[event'.at]
                 = Block(ExpectedType(event'.command), <<>>)]_vars

\* Enter on the "dual" command has inserted an empty Dialogue block.
C8_Witness ==
    /\ event.key = "PaletteEnter"
    /\ event.command = "dual"
    /\ children[event.at] = Block("dialogue", <<>>)

\* C9: the selection wraps in both directions over the 16 commands: ArrowUp
\* from index 0 gives 15, ArrowDown from 15 gives 0, 16 ArrowDown (or 16
\* ArrowUp) in a row give the index they started from, and ArrowUp followed
\* by ArrowDown gives the index before the two.
C9_SelectionWraps ==
    /\ commandsLength = 16
    /\ nav.dir = "up" /\ nav.oneBack = 0 => selectedIndex = commandsLength - 1
    /\ nav.dir = "down" /\ nav.oneBack = commandsLength - 1 => selectedIndex = 0
    /\ nav.count = commandsLength => selectedIndex = nav.start
    /\ nav.prevDir = "up" /\ nav.dir = "down" => selectedIndex = nav.twoBack

\* 16 ArrowUp in a row, from index 0 through 15 and back.
C9_Witness ==
    /\ nav.dir = "up"
    /\ nav.count = commandsLength
    /\ nav.start = 0
    /\ nav.oneBack = 1

\* C10: in every reachable state selectedIndex is an integer of 0..15, so
\* that commands[selectedIndex] exists.
C10_SelectedIndexInRange ==
    /\ selectedIndex \in 0..15
    /\ selectedIndex + 1 \in DOMAIN commands

\* The palette is open on the last command, reached by ArrowUp from 0 or by
\* 15 ArrowDown.
C10_Witness == showCommandPalette /\ selectedIndex = commandsLength - 1

\* C11: whenever the palette goes from closed to open, selectedIndex is 0
\* in the first state in which it is open, whatever index was selected when
\* the palette was last closed by Enter, by a click or by Escape.
C11_OpensAtZero ==
    [][~showCommandPalette /\ showCommandPalette' => selectedIndex' = 0]_vars

\* The palette has just been opened again, right after it was closed (by
\* Enter or by Escape) with the last command of the catalog selected (index
\* 15), and the first command is selected.
C11_Witness ==
    /\ showCommandPalette
    /\ event.key = "Slash"
    /\ event.command = commands[commandsLength]
    /\ selectedIndex = 0

\* The pages of the body: those after the title page.
BodyPages == pdf.pages - (IF pdf.titlePage THEN 1 ELSE 0)

\* The least k with k * d >= n.
CeilDiv(n, d) == (n + d - 1) \div d

\* C18: with page height 792, margins 72 and line height 14, an export of
\* N >= 1 body lines produces ceil(N / floor(648 / 14)) = ceil(N / 46) body
\* pages, and a line that follows lines exactly filling a page is the
\* first line of a new page.
C18_PageCount ==
    pdf.phase = "saved" /\ pdf.lines >= 1
      => /\ pageHeight - marginTop - marginBottom = 648
         /\ 648 \div lineHeight = 46
         /\ BodyPages = CeilDiv(pdf.lines, 46)
         /\ \A k \in 1..Len(pdf.drawn) :
              (k > 1 /\ (k - 1) % 46 = 0)
                => /\ pdf.drawn[k].newPage
                   /\ pdf.drawn[k].page = pdf.drawn[k - 1].page + 1
                   /\ pdf.drawn[k].y = 792 - 72

\* 93 lines exported after a title page: three body pages, the third with
\* one line.
C18_Witness ==
    /\ pdf.phase = "saved"
    /\ pdf.lines = 93
    /\ pdf.titlePage
    /\ BodyPages = 3
    /\ pdf.drawn[93].newPage

\* C19: every body line is drawn at a y with y - lineHeight >= bottomMargin
\* and y <= pageHeight - topMargin; the first line of every page is at
\* y = 720; consecutive lines of a page differ by exactly 14; and a new page
\* is started exactly when cursor - lineHeight < bottomMargin.
C19_LinePositions ==
    \A k \in 1..Len(pdf.drawn) :
        LET d == pdf.drawn[k]
            first == k = 1 \/ pdf.drawn[k - 1].page # d.page
        IN /\ d.y - 14 >= 72
           /\ d.y <= 792 - 72
           /\ first => d.y = 720
           /\ ~first => pdf.drawn[k - 1].y - d.y = 14
           /\ d.newPage <=> (d.cursor - 14 < 72)
           /\ d.newPage <=> (k > 1 /\ pdf.drawn[k - 1].page # d.page)

\* 47 lines exported: the 46th at the foot of the first page, the 47th at
\* the head of the second.
C19_Witness ==
    /\ pdf.phase = "saved"
    /\ pdf.lines = 47
    /\ pdf.drawn[46].y = 90
    /\ pdf.drawn[47].y = 720
    /\ pdf.drawn[47].page = pdf.drawn[46].page + 1

\* C20: every body line is drawn exactly once, the lines are in document
\* order when the pages are read in order and each page from top to bottom,
\* and a page that was left is never drawn on again.
C20_SingleForwardPass ==
    /\ pdf.phase = "drawing" => Len(pdf.drawn) = pdf.next - 1
    /\ pdf.phase = "saved" => Len(pdf.drawn) = pdf.lines
    /\ \A k \in 1..Len(pdf.drawn) : pdf.drawn[k].line = k
    /\ \A j, k \in 1..Len(pdf.drawn) :
         j < k => \/ pdf.drawn[j].page < pdf.drawn[k].page
                  \/ /\ pdf.drawn[j].page = pdf.drawn[k].page
                     /\ pdf.drawn[j].y > pdf.drawn[k].y

\* 95 lines exported on three pages.
C20_Witness ==
    /\ pdf.phase = "saved"
    /\ pdf.lines = 95
    /\ pdf.drawn[95].page = pdf.drawn[1].page + 2

\* The text in capitals.
Capitals(text) == [k \in DOMAIN text |-> ToUpper(text[k])]

\* The text begins, whatever the case of its letters, with `prefix`.
BeginsWith(text, prefix) ==
    /\ Len(text) >= Len(prefix)
    /\ SubSeq(Capitals(text), 1, Len(prefix)) = prefix

\* The text is a beginning of `prefix` and not the whole of it.
BeginningOf(text, prefix) ==
    /\ Len(text) < Len(prefix)
    /\ Capitals(text) = SubSeq(prefix, 1, Len(text))

\* The keywords followed by a space, and the type each gives.
KeywordSpace ==
    {[prefix |-> <<"I", "N", "T", " ">>, type |-> "scene-heading"],
     [prefix |-> <<"E", "X", "T", " ">>, type |-> "scene-heading"],
     [prefix |-> <<"F", "A", "D", "E", " ">>, type |-> "transition"],
     [prefix |-> <<"C", "U", "T", " ">>, type |-> "transition"],
     [prefix |-> <<"D", "I", "S", "S", "O", "L", "V", "E", " ">>,
      type |-> "transition"]}

\* The dot forms.
KeywordDot == {<<"I", "N", "T", ".">>, <<"E", "X", "T", ".">>}

Whitespace == {" ", "\t", "\n"}

\* The type the text calls for: that of the keyword it begins with, when the
\* keyword (or its dot form) is followed by white space; "none" otherwise.
CalledFor(text) ==
    IF \E r \in KeywordSpace :
          /\ BeginsWith(text, SubSeq(r.prefix, 1, Len(r.prefix) - 1))
          /\ Len(text) >= Len(r.prefix)
          /\ text[Len(r.prefix)] \in Whitespace
    THEN (CHOOSE r \in KeywordSpace :
            BeginsWith(text, SubSeq(r.prefix, 1, Len(r.prefix) - 1))).type
    ELSE IF \E d \in KeywordDot :
               /\ BeginsWith(text, d)
               /\ Len(text) > Len(d)
               /\ text[Len(d) + 1] \in Whitespace
    THEN "scene-heading"
    ELSE "none"

\* A step of the typing specification by the event `key`.
TypingStep(key) == event'.key = key

\* The block of the cursor before and after a step that keeps the blocks.
BlockBefore == children[selection.block]
BlockAfter == children'[selection'.block]

\* C12: typing one character at a time, the block of the cursor has the
\* type of the keyword as soon as its text begins with the keyword followed
\* by a space ("INT ", "EXT ": scene heading; "FADE ", "CUT ", "DISSOLVE ":
\* transition, in either case of the letters), and keeps its type while its
\* text is only a beginning of that; an Action block is still Action after
\* "I", "IN", "INT" and is a scene heading after "INT ".
C12_ReclassifiedAtSpace ==
    [][TypingStep("Char")
         => /\ \A r \in KeywordSpace :
                 /\ BeginsWith(BlockAfter.text, r.prefix)
                      => BlockAfter.type = r.type
                 /\ BeginningOf(BlockAfter.text, r.prefix)
                      => BlockAfter.type = BlockBefore.type
            /\ (/\ BlockBefore.type = "action"
                /\ BlockAfter.text \in {<<"I">>, <<"I", "N">>, <<"I", "N", "T">>})
                 => BlockAfter.type = "action"
            /\ BlockAfter.text = <<"I", "N", "T", " ">>
                 => BlockAfter.type = "scene-heading"]_vars

\* The space after "DISSOLVE" has just been typed and the block has been
\* made a transition by it.
C12_Witness ==
    /\ event.key = "Char"
    /\ fmt.setNodes = 1
    /\ children = <<Block("transition",
                          <<"D", "I", "S", "S", "O", "L", "V", "E", " ">>)>>

\* C13: a block whose text begins with "INT." or "EXT." is made a scene
\* heading by the insertion of the character that completes that prefix,
\* the ".".
C13_Original ==
    [][TypingStep("Char")
         => \A d \in KeywordDot :
              (BeginsWith(BlockAfter.text, d) /\ ~BeginsWith(BlockBefore.text, d))
                => BlockAfter.type = "scene-heading"]_vars

\* C13, as the editor has it: the "." that completes "INT." or "EXT." leaves
\* the type of the block as it was, and so does every character typed while
\* no white space follows the "."; the block is a scene heading once its
\* text begins with "INT." or "EXT." followed by white space.
C13_DotThenSpace ==
    [][TypingStep("Char")
         => \A d \in KeywordDot :
              LET spaced == /\ Len(BlockAfter.text) > Len(d)
                            /\ BlockAfter.text[Len(d) + 1] \in Whitespace
              IN /\ (BeginsWith(BlockAfter.text, d) /\ ~spaced)
                      => BlockAfter.type = BlockBefore.type
                 /\ (BeginsWith(BlockAfter.text, d) /\ spaced)
                      => BlockAfter.type = "scene-heading"]_vars

\* The space after "int." has just been typed and the block has been made a
\* scene heading by it.
C13_Witness ==
    /\ event.key = "Char"
    /\ fmt.setNodes = 1
    /\ children = <<Block("scene-heading", <<"i", "n", "t", ".", " ">>)>>

\* C14: over single-character insertions into a block, the set-block-type
\* mutation is issued exactly once by the character after which the text
\* calls for a type that the block does not have, and is not issued by a
\* character typed while the block already has the type its text calls for,
\* nor while the text calls for none.
C14_SetTypeOnce ==
    [][TypingStep("Char")
         => LET target == CalledFor(BlockAfter.text)
            IN /\ fmt'.setNodes \in {0, 1}
               /\ (target # "none" /\ BlockBefore.type # target)
                    => (fmt'.setNodes = 1 /\ BlockAfter.type = target)
               /\ (target # "none" /\ BlockBefore.type = target)
                    => (fmt'.setNodes = 0 /\ BlockAfter.type = target)
               /\ target = "none"
                    => (fmt'.setNodes = 0 /\ BlockAfter.type = BlockBefore.type)]_vars

\* "a" has just been typed after "INT " in the second block, an Action
\* block at first and a scene heading since the space: no mutation is
\* issued by the "a".
C14_Witness ==
    /\ event.key = "Char"
    /\ fmt.setNodes = 0
    /\ Len(children) = 2
    /\ children[2] = Block("scene-heading", <<"I", "N", "T", " ", "a">>)

\* The types of the blocks, in order.
Types(ch) == [k \in DOMAIN ch |-> ch[k].type]

\* C15: a paste of text changes the type of no block, whatever the text
\* pasted (of more than one character, or of one), also when the text of the
\* block then calls for another type.
C15_PasteKeepsTypes ==
    [][TypingStep("Paste") => Types(children') = Types(children)]_vars

\* "INT " has just been pasted at the end of a dialogue block, which is
\* still a dialogue block.
C15_Witness ==
    /\ event.key = "Paste"
    /\ children = <<Block("dialogue", <<"I", "N", "T", " ">>)>>
    /\ selection = Point(1, 4)

\* The first rule of fmt.rules whose pattern matches the text; 0 when none
\* does.
FirstMatch(text) ==
    IF \E k \in DOMAIN fmt.rules : PatternTest(fmt.rules[k], text)
    THEN CHOOSE k \in DOMAIN fmt.rules :
           /\ PatternTest(fmt.rules[k], text)
           /\ \A j \in 1..(k - 1) : ~PatternTest(fmt.rules[j], text)
    ELSE 0

\* The first rule of fmt.rules whose pattern matches the text and whose
\* type is not `type`; 0 when there is none.
FirstMatchNot(text, type) ==
    IF \E k \in DOMAIN fmt.rules :
          PatternTest(fmt.rules[k], text) /\ fmt.rules[k].type # type
    THEN CHOOSE k \in DOMAIN fmt.rules :
           /\ PatternTest(fmt.rules[k], text) /\ fmt.rules[k].type # type
           /\ \A j \in 1..(k - 1) :
                ~(PatternTest(fmt.rules[j], text) /\ fmt.rules[j].type # type)
    ELSE 0

TypesKept(before, after) ==
    \/ Types(after) = Types(before)
    \/ \E k \in DOMAIN before : Types(after) = RemoveAt(Types(before), k)

\* C17: deleteBackward, deleteForward and the insertion of a line feed, of
\* a tab or of a text of more than one character leave the type of every
\* block as it was; a block keeps the type auto-format gave it when the
\* prefix is deleted.
C17_OnlyCharsRetype ==
    [][event'.key \in {"DeleteBackward", "DeleteForward", "Control", "Text"}
         => TypesKept(children, children')]_vars

\* The second block, an Action block at first, was made a scene heading by
\* "INT " and is one still after the space was deleted.
C17_Witness ==
    /\ event.key = "DeleteBackward"
    /\ Len(children) = 2
    /\ children[1].type = "character"
    /\ children[2] = Block("scene-heading", <<"I", "N", "T">>)

(***************************************************************************)
(* The export of the document (SpecExport).                                *)
(***************************************************************************)

\* The drawings of the lines of the body, in the order drawn.
BodyDrawn == SelectSeq(app.export.drawn, LAMBDA d : d.of \in BlockTypes)

\* The drawings of the title page.
TitleDrawn == SelectSeq(app.export.drawn, LAMBDA d : d.of \notin BlockTypes)

\* The content pages are drawn.
Drawn == app.export.phase \in {"drawn", "saved"}

\* The width, in tenths of a point, of a text as rendered at a size in
\* Courier (six tenths of the size for each character).
RenderedWidth(text, size) == 6 * size * Len(text)

\* x, in tenths of a point, of a text of width w centred on the page.
Centred(w) == (Tenths(612) - w) \div 2

\* C21 (as stated): the x position of each drawn body line depends only on
\* its type and on the rendered width of the text that is drawn: scene
\* heading (pageWidth - textWidth) / 2, character leftMargin + 144,
\* dialogue leftMargin + 108, parenthetical leftMargin + 144, transition
\* pageWidth - rightMargin - textWidth, any other type leftMargin + 108.
C21_Original ==
    \A k \in DOMAIN BodyDrawn :
       LET d == BodyDrawn[k]
           textWidth == RenderedWidth(d.text, d.size)
       IN d.x = CASE d.of = "scene-heading" -> Centred(textWidth)
                  [] d.of = "character" -> Tenths(72 + 144)
                  [] d.of = "dialogue" -> Tenths(72 + 108)
                  [] d.of = "parenthetical" -> Tenths(72 + 144)
                  [] d.of = "transition" -> Tenths(612 - 72) - textWidth
                  [] OTHER -> Tenths(72 + 108)

\* The n-th least element of a set of numbers.
Nth(S, n) == CHOOSE x \in S : Cardinality({y \in S : y < x}) = n - 1

\* The lines of a text: the pieces between its line feeds, in order.
LinesOfText(text) ==
    LET cuts == {0, Len(text) + 1} \cup {k \in DOMAIN text : text[k] = "\n"}
    IN [i \in 1..(Cardinality(cuts) - 1) |->
          SubSeq(text, Nth(cuts, i) + 1, Nth(cuts, i + 1) - 1)]

\* A line is blank: it has nothing but white space.
Blank(line) == \A k \in DOMAIN line : line[k] \in Whitespace

\* The lines a block is to yield.
ExpectedOfBlock(block) ==
    LET kept == SelectSeq(LinesOfText(block.text), LAMBDA l : ~Blank(l))
    IN [k \in DOMAIN kept |->
          [text |-> kept[k], type |-> block.type,
           bold |-> block.type \in {"character", "scene-heading",
                                    "transition"},
           size |-> 12]]

\* The lines a document is to yield: those of its blocks, in order.
RECURSIVE ExpectedLines(_)
ExpectedLines(blocks) ==
    IF blocks = <<>> THEN <<>>
    ELSE ExpectedOfBlock(Head(blocks)) \o ExpectedLines(Tail(blocks))

\* C22: flattening maps each block to the lines of its text split on the
\* line feed, in order, less exactly the lines that are empty once trimmed;
\* a kept line has its block's type, is bold iff the type is character,
\* scene heading or transition, and has size 12; a block whose text is
\* empty or blank yields no line.
C22_Flattening ==
    Drawn \/ app.export.phase = "drawing"
      => app.export.formatted = ExpectedLines(app.export.content)

\* A block of three lines, the second blank, was flattened to its first and
\* its third line, the third kept with the space it begins with.
C22_Witness ==
    /\ app.export.phase = "drawn"
    /\ Len(app.export.content) = 1
    /\ app.export.content[1] =
          Block("character", <<"a", "\n", " ", "\n", " ", "b">>)
    /\ Len(app.export.formatted) = 2
    /\ app.export.formatted[2] =
          [text |-> <<" ", "b">>, type |-> "character", bold |-> TRUE,
           size |-> 12]

\* C23: a title page is emitted, as the first page, iff the title page was
\* requested and the title or the author is not empty (the contact or
\* basedOn alone do not make one); the pages are the title page, if any,
\* and the pages of the body (one for an empty body, else one for every 46
\* lines).
C23_TitlePageIff ==
    Drawn
      => LET tp == app.titlePage
             wanted == app.showTitlePage
                         /\ (tp.title # <<>> \/ tp.author # <<>>)
             n == Len(app.export.formatted)
             body == IF n = 0 THEN 1 ELSE CeilDiv(n, 46)
         IN /\ wanted <=> app.export.pages[1] = "title"
            /\ \A p \in 2..Len(app.export.pages) :
                  app.export.pages[p] = "content"
            /\ Len(app.export.pages) = (IF wanted THEN 1 ELSE 0) + body

\* A document of two pages of body was exported with a title page that has
\* an author and no title.
C23_Witness ==
    /\ app.export.phase = "saved"
    /\ app.titlePage.title = <<>>
    /\ app.titlePage.author # <<>>
    /\ app.export.pages = <<"title", "content", "content">>

\* The drawings of a part of the title page.
TitleDrawnOf(part) == SelectSeq(TitleDrawn, LAMBDA d : d.of = part)

\* The title page is drawn as C24 states, with the contact at size
\* `contactSize`.
TitlePageAsStated(contactSize) ==
    LET tp == app.titlePage
        title == toUpperCase(tp.title)
        author == WrittenBy \o tp.author
        basedOn == BasedOn \o tp.basedOn \o <<"\"">>
    IN /\ \A k \in DOMAIN TitleDrawn : TitleDrawn[k].page = 1
       /\ TitleDrawnOf("title") =
             IF tp.title = <<>> THEN <<>>
             ELSE <<[page |-> 1, of |-> "title", text |-> title,
                     x |-> Centred(RenderedWidth(title, 24)), y |-> 792 - 200,
                     size |-> 24, bold |-> TRUE]>>
       /\ TitleDrawnOf("author") =
             IF tp.author = <<>> THEN <<>>
             ELSE <<[page |-> 1, of |-> "author", text |-> author,
                     x |-> Centred(RenderedWidth(author, 12)),
                     y |-> 792 - 300, size |-> 12, bold |-> FALSE]>>
       /\ TitleDrawnOf("basedOn") =
             IF tp.basedOn = <<>> THEN <<>>
             ELSE <<[page |-> 1, of |-> "basedOn", text |-> basedOn,
                     x |-> Centred(RenderedWidth(basedOn, 12)),
                     y |-> 792 - 350, size |-> 12, bold |-> FALSE]>>
       /\ TitleDrawnOf("contact") =
             IF tp.contact = <<>> THEN <<>>
             ELSE <<[page |-> 1, of |-> "contact", text |-> tp.contact,
                     x |-> Tenths(72), y |-> 72, size |-> contactSize,
                     bold |-> FALSE]>>

\* C24 (as stated): on an emitted title page are drawn the title in upper
\* case, bold, size 24, centred; "Written by {author}", size 12, centred;
\* "Based on "{basedOn}"", size 12, centred, iff basedOn is not empty; and
\* the contact at x = leftMargin, y = bottomMargin, size 12.  (Each of the
\* title, the author and the contact is taken to be drawn when it is not
\* empty.)
C24_Original ==
    Drawn /\ app.export.pages[1] = "title" => TitlePageAsStated(12)

\* C24 (amended): as stated, but the contact is drawn at size 10, and each
\* of the four parts is drawn iff its field is not empty.
C24_TitlePage ==
    Drawn /\ app.export.pages[1] = "title" => TitlePageAsStated(10)

\* A title page with its four fields filled in was drawn.
C24_Witness ==
    /\ app.export.phase = "drawn"
    /\ app.export.pages[1] = "title"
    /\ Len(TitleDrawn) = 4
    /\ \A f \in {"title", "author", "contact", "basedOn"} :
          app.titlePage[f] # <<>>

\* A step of the export: its phase changes.
ExportStep == app'.export.phase # app.export.phase

\* C25: no step of an export, whether the export succeeds or fails, changes
\* the document (the blocks, their types and texts), the cursor or the
\* state of the palette.
C25_ExportReadsOnly ==
    [][ExportStep
         => /\ children' = children
            /\ selection' = selection
            /\ showCommandPalette' = showCommandPalette
            /\ selectedIndex' = selectedIndex]_vars

\* An export has failed, on a document with a letter the fonts cannot
\* encode, and the document is as it was when the export was triggered.
C25_Witness ==
    /\ app.export.phase = "failed"
    /\ app.alert = "Failed to export PDF"
    /\ app.export.editedAt = {}
    /\ children = app.export.atTrigger
    /\ children = <<Block("transition", <<"ta">>)>>

\* C26: the export reads the document once, when it is triggered: the
\* lines drawn are those of the document as it was then, whatever the user
\* has typed since, while the PDF was being built or saved.
C26_SnapshotAtTrigger ==
    Drawn
      => LET expected == ExpectedLines(app.export.atTrigger)
         IN /\ app.export.content = app.export.atTrigger
            /\ Len(BodyDrawn) = Len(expected)
            /\ \A k \in DOMAIN expected :
                  /\ BodyDrawn[k].text = expected[k].text
                  /\ BodyDrawn[k].of = expected[k].type

\* The PDF was downloaded after the user typed both before the pages were
\* drawn and while the PDF was being saved: the document is no longer the
\* one exported.
C26_Witness ==
    /\ app.export.phase = "saved"
    /\ app.export.editedAt = {"read", "drawn"}
    /\ children # app.export.atTrigger
    /\ ExpectedLines(children) # ExpectedLines(app.export.atTrigger)
    /\ Len(BodyDrawn) = 1

(***************************************************************************)
(* The toolbar (SpecToggle).                                               *)
(***************************************************************************)

\* C27 (as stated): toggleBlock(format) on a block of type format makes it
\* a paragraph, on a block of another type makes it a block of type
\* format, and changes neither the block's text nor the state of the
\* palette.  (The block is the one the cursor is in; for a block the
\* toolbar has wrapped, its type and text are those of the block inside.)
C27_Original ==
    [][event'.key = "Toggle" /\ selection # NoSelection
         => /\ Len(children') = Len(children)
            /\ LET before == LowestBlock(children[selection.block])
                   after == LowestBlock(children'[selection.block])
               IN /\ after.type = IF before.type = event'.command
                                    THEN "paragraph" ELSE event'.command
                  /\ after.text = before.text
            /\ showCommandPalette' = showCommandPalette
            /\ selectedIndex' = selectedIndex]_vars

(***************************************************************************)
(* Saving (SpecSave).                                                      *)
(***************************************************************************)

\* C28 (as stated): getScreenplay(id) returns null exactly when the server
\* answers 404 for the id, and raises an error for any other response that
\* is not a success.
C28_Original ==
    app.lookup.outcome # "none"
      => /\ app.lookup.outcome = "null" <=> app.lookup.status = 404
         /\ app.lookup.status \notin 200..299 /\ app.lookup.status # 404
              => app.lookup.outcome = "throws"

\* The rows stored under a title.
RowsTitled(title) == {k \in DOMAIN storage.db : storage.db[k].title = title}

\* C29 (as stated): saveCurrentScreenplay updates the stored screenplay of
\* the current title when there is one and creates one only when there is
\* none: after a save that reached the database there is exactly one stored
\* screenplay with the title saved, and it holds the content saved.
C29_Original ==
    app.save.phase = "done" /\ app.save.dbOk
      => /\ Cardinality(RowsTitled(app.save.title)) = 1
         /\ \A k \in RowsTitled(app.save.title) :
               storage.db[k].content = app.save.content

\* The localStorage writes of the save could succeed: the three of the try
\* after a database save that succeeded, or the three of the catch.
LocalWritesSucceeded ==
    \/ app.save.dbOk /\ app.save.first = 3
    \/ app.save.second = 3

\* C30: when handleSave is over and its localStorage writes have
\* succeeded, localStorage holds the content, the title page and the title
\* that were saved, whether the database save succeeded or failed; and
\* after a database save that failed the alert is not that of a failed
\* save.
C30_LocalBackup ==
    app.save.phase = "done" /\ LocalWritesSucceeded
      => /\ storage.local =
               [has |-> {"screenplay-content", "screenplay-title-page",
                         "screenplay-title"},
                content |-> app.save.content,
                titlePage |-> app.save.titlePage,
                title |-> app.save.title]
         /\ ~app.isSaving
         /\ ~app.save.dbOk
              => app.alert = "Saved to local storage (database unavailable)"
         /\ app.alert # "Failed to save!"

\* A save whose requests did not reach the server has written localStorage.
C30_Witness ==
    /\ app.save.phase = "done"
    /\ ~app.save.dbOk
    /\ app.save.attempts = <<3>>
    /\ storage.db = <<sampleScreenplay>>
    /\ storage.local.title = app.save.title
    /\ app.alert # "Failed to save!"

(***************************************************************************)
(* Sessions (SpecSession).                                                 *)
(***************************************************************************)
\* The last save reported success: by the database or by the fallback.
SaveReportedSuccess ==
    SaveOutcome(app.save.dbOk, app.save.first, app.save.second).alert
        # "Failed to save!"

\* C31, as stated: after a save that reported success, the next load of the
\* application gives the editor the saved content, and the application the
\* saved title page and title, whether the database was within reach at the
\* save and at the load or not.
C31_Original ==
    (app.save.phase = "loaded" /\ SaveReportedSuccess)
        => /\ children = app.save.content
           /\ app.titlePage = app.save.titlePage
           /\ app.currentDocument = app.save.title

(***************************************************************************)
(* The server's routes (SpecServer).                                       *)
(***************************************************************************)
\* The last request was for an id, and no row of the table had it.
IdNotStored ==
    /\ storage.last.method \in {"GET", "PUT", "DELETE"}
    /\ RowsWithId(storage.last.before, storage.last.id) = {}

\* The last request was a PUT of a stored id with a content and a title
\* page and no title, as updateScreenplay sends it.
PutWithoutTitle ==
    /\ storage.last.method = "PUT"
    /\ RowsWithId(storage.last.before, storage.last.id) # {}
    /\ ~storage.last.hasTitle
    /\ storage.last.hasContent

\* C32, as stated: a PUT of a stored id with new blocks and a new title page
\* and no title succeeds and returns the row with the new content and title
\* page, its title and id as they were; the row is stored so.
C32_Original ==
    PutWithoutTitle
        => LET k == CHOOSE i \in RowsWithId(storage.last.before,
                                             storage.last.id) : TRUE
               old == storage.last.before[k]
               new == [old EXCEPT !.content = storage.last.body.content,
                                  !.title_page = storage.last.body.title_page]
           IN /\ storage.last.status = 200
              /\ storage.last.row = new
              /\ \E i \in DOMAIN storage.db : storage.db[i] = new

\* C33: a GET, PUT or DELETE of an id that is not stored answers 404, a POST
\* with no title or with no content answers 400, and the table after each of
\* these requests is the table before it.
C33_FailedRequest ==
    /\ IdNotStored
         => storage.last.status = 404 /\ storage.db = storage.last.before
    /\ (storage.last.method = "POST"
          /\ (~storage.last.hasTitle \/ ~storage.last.hasContent))
         => storage.last.status = 400 /\ storage.db = storage.last.before

\* C33's cases have happened: a row has been inserted and deleted again, and
\* the last request is a PUT of the id it had.
C33_Witness ==
    /\ IdNotStored
    /\ storage.last.method = "PUT"
    /\ storage.last.id = NewIds[1]
    /\ storage.last.inserted > 0
    /\ storage.last.status = 404

(***************************************************************************)
(* A confirm with the palette closed (SpecConfirm).                        *)
(***************************************************************************)
\* C34, as stated: a confirm that arrives when the palette is closed, a
\* second Enter right after the first closed it included, is not executed:
\* it deletes no character and inserts no block.
C34_Original ==
    [][(~showCommandPalette /\ event'.key = "EnterClosed")
          => children' = children]_vars

(***************************************************************************)
(* The shape of the document (SpecToggle).                                 *)
(***************************************************************************)
\* C35, as stated: after any sequence of operations, toggleBlock among them,
\* every top-level element of the document is a block of one of the seven
\* types holding one run of text, and no block is nested in another.
C35_Original ==
    \A b \in DOMAIN children :
       /\ ~IsWrapper(children[b])
       /\ children[b].type \in BlockTypes
       /\ DOMAIN children[b] = {"type", "text"}

(***************************************************************************)
(* "/" and Escape (SpecSlash).                                             *)
(***************************************************************************)
\* The last two events were "/" and Escape.
SlashThenEscape == event.key = "SlashEscape"

\* The document and the palette are as they were before the "/".
RoundTrip ==
    /\ children = event.before.children
    /\ ~showCommandPalette
    /\ selectedIndex = 0

\* The "/" was typed at a cursor and the auto-format left the type of the
\* cursor's block as it was.
SlashAtCursorKeepsType ==
    LET before == event.before
        b == before.selection.block
    IN /\ IsCollapsed(before.selection)
       /\ insertText(before, <<"/">>).children[b].type
            = before.children[b].type

\* C36, as stated: "/" in the Editing state and then Escape, no event in
\* between, leave the blocks, their types and texts, and the closed palette
\* as they were before the "/".
C36_Original == SlashThenEscape => RoundTrip

\* C36, amended: "/" and then Escape are a round trip when the "/" was typed
\* at a cursor (no range selected) and typing it did not re-type the block.
C36_RoundTrip == (SlashThenEscape /\ SlashAtCursorKeepsType) => RoundTrip

\* C36's case has happened: "/" typed in the middle of a document of two
\* blocks, then Escape.
C36_Witness ==
    /\ SlashThenEscape
    /\ SlashAtCursorKeepsType
    /\ Len(event.before.children) = 2
    /\ event.before.selection = Point(1, 1)
    /\ RoundTrip

(***************************************************************************)
(* One save at a time (SpecSaveFair).                                      *)
(***************************************************************************)
\* Save was clicked in this step while a save was under way.
ClickWhileSaving == app.isSaving /\ ~app.save.ignored /\ app'.save.ignored

\* C37: at most one call of saveCurrentScreenplay is under way at any time;
\* a click on Save while isSaving is true starts none and changes nothing
\* stored; and every save that has started sets isSaving back to false,
\* whatever becomes of the database call and of the fallback.
C37_OneSaveInFlight ==
    /\ [](app.save.inFlight <= 1)
    /\ [](app.isSaving <=> app.save.phase = "pending")
    /\ [][ClickWhileSaving
            => /\ app'.save.inFlight = app.save.inFlight
               /\ app'.save.phase = "pending"
               /\ storage' = storage]_vars
    /\ (app.isSaving ~> ~app.isSaving)

\* C37's case has happened: Save was clicked while a save was under way, and
\* that save has ended with the database call and the fallback both failed.
C37_Witness ==
    /\ app.save.ignored
    /\ app.save.phase = "done"
    /\ ~app.isSaving
    /\ app.alert = "Failed to save!"
    /\ ~app.save.dbOk

(***************************************************************************)
(* The body of an empty document (SpecExport).                             *)
(***************************************************************************)
\* The content pages of the exported document.
ContentPages ==
    Cardinality({p \in DOMAIN app.export.pages :
                   app.export.pages[p] = "content"})

\* C38, as stated: when the flattening yields no line, the body has
\* ceil(0 / floor(648 / 14)) = 0 pages: the export emits no body page.
C38_Original ==
    (app.export.phase = "saved" /\ Len(app.export.formatted) = 0)
        => /\ CeilDiv(0, maxLinesPerPage) = 0
           /\ ContentPages = 0

====
